---- MODULE Spec2Model ----
(***************************************************************************)
(* Identity and session core of agusrisan/multitenant: registration,      *)
(* web login (sessions), API login (JWT pairs), refresh-token rotation,    *)
(* logout and the expiry clean-up jobs, over a shared persistence layer.   *)
(* Every use case is a process whose steps are its repository calls (the   *)
(* await points), each taken together with the pure code around it.        *)
(* Time is counted in units of 60 seconds (the JWT library's leeway).      *)
(* Spec is the whole server; SpecWeb, SpecApi and SpecLogin are the parts  *)
(* of it the properties at the end are checked on.                         *)
(***************************************************************************)
EXTENDS Integers, Sequences, FiniteSets, TLC

\* ---------------------------------------------------------------- bounds
NumProcs == 2
MaxUsers == 2
MaxSessions == 3
MaxPairs == 3
MaxLogins == 1
MaxTime == 2
\* lifetimes in clock units; 0 is a lifetime shorter than one unit
AccessTtl == 0
RefreshTtl == 0
SessionTtl == 0

\* ------------------------------------------------------ program constants
Leeway == 1
EmailMaxLen == 255
NameMaxLen == 255
MIN_LENGTH == 8

Procs == 1..NumProcs

JwtSecret == "server-secret"

\* ------------------------------------------------------------- AppError
Ok(v) == [kind |-> "Ok", msg |-> "", val |-> <<v>>]
Err(k, m) == [kind |-> k, msg |-> m, val |-> <<>>]
validation(m) == Err("Validation", m)
authentication(m) == Err("Authentication", m)
conflict(m) == Err("Conflict", m)
internal(m) == Err("Internal", m)
IsOk(r) == r.kind = "Ok"
NoResult == Err("None", "")
not_found(m) == Err("NotFound", m)
database(m) == Err("Database", m)
config(m) == Err("Config", m)

\* the kinds whose detail is kept from the caller
InternalKinds == {"Database", "Internal", "Config"}

\* AppError::status_code
status_code(e) ==
    CASE e.kind \in {"Validation", "BadRequest"} -> 400
      [] e.kind = "Authentication" -> 401
      [] e.kind = "Authorization" -> 403
      [] e.kind = "NotFound" -> 404
      [] e.kind = "Conflict" -> 409
      [] e.kind \in InternalKinds -> 500

\* AppError::error_code
error_code(e) ==
    CASE e.kind = "Database" -> "DATABASE_ERROR"
      [] e.kind = "Validation" -> "VALIDATION_ERROR"
      [] e.kind = "Authentication" -> "AUTHENTICATION_ERROR"
      [] e.kind = "Authorization" -> "AUTHORIZATION_ERROR"
      [] e.kind = "NotFound" -> "NOT_FOUND"
      [] e.kind = "Conflict" -> "CONFLICT"
      [] e.kind = "Internal" -> "INTERNAL_ERROR"
      [] e.kind = "Config" -> "CONFIG_ERROR"
      [] e.kind = "BadRequest" -> "BAD_REQUEST"

\* the #[error("...: {0}")] text of the variant: the prefix, then the payload
Display(e) ==
    <<CASE e.kind = "Database" -> "Database error: "
        [] e.kind = "Validation" -> "Validation error: "
        [] e.kind = "Authentication" -> "Authentication error: "
        [] e.kind = "Authorization" -> "Authorization error: "
        [] e.kind = "NotFound" -> "Not found: "
        [] e.kind = "Conflict" -> "Conflict: "
        [] e.kind = "Internal" -> "Internal error: "
        [] e.kind = "Config" -> "Configuration error: "
        [] e.kind = "BadRequest" -> "Bad request: ",
      e.msg>>

\* AppError::user_message
user_message(e) ==
    CASE e.kind = "Database" -> <<"A database error occurred">>
      [] e.kind = "Internal" -> <<"An internal error occurred">>
      [] e.kind = "Config" -> <<"A configuration error occurred">>
      [] OTHER -> Display(e)

\* AppError::details: Some(text) as <<text>>, None as <<>>
details(e) == IF e.kind \in InternalKinds THEN <<e.msg>> ELSE <<>>

\* IntoResponse for AppError, in a build with or without debug_assertions
IntoResponse(e, debug_assertions) ==
    [status |-> status_code(e),
     error |-> [message |-> user_message(e),
                details |-> IF debug_assertions THEN details(e) ELSE <<>>,
                code |-> error_code(e)]]

\* ------------------------------------------------- strings as char lists
Whitespace == {" "}

RECURSIVE TrimStart(_)
TrimStart(s) ==
    IF s # <<>> /\ Head(s) \in Whitespace THEN TrimStart(Tail(s)) ELSE s

RECURSIVE TrimEnd(_)
TrimEnd(s) ==
    IF s # <<>> /\ s[Len(s)] \in Whitespace
    THEN TrimEnd(SubSeq(s, 1, Len(s) - 1))
    ELSE s

Trim(s) == TrimEnd(TrimStart(s))

LowerChar(c) ==
    CASE c = "A" -> "a"
      [] c = "B" -> "b"
      [] c = "C" -> "c"
      [] OTHER -> c

ToLowercase(s) == [i \in 1..Len(s) |-> LowerChar(s[i])]

\* validator's e-mail check on the model's alphabet: one "@" splitting a
\* non-empty user part from a non-empty domain, and no white space
ValidateEmail(s) ==
    LET ats == {i \in 1..Len(s) : s[i] = "@"}
    IN  /\ Cardinality(ats) = 1
        /\ \A i \in 1..Len(s) : s[i] \notin Whitespace
        /\ \A i \in ats : i > 1 /\ i < Len(s)

\* Email::new: the result of the constructor, Ok(normalized) or an error
\* variant of Email::new that trims and keeps the letter case
EmailNew_KeepCase(raw) ==
    LET email == Trim(raw)
    IN  IF email = <<>> THEN validation("Email cannot be empty")
        ELSE IF Len(email) > EmailMaxLen
             THEN validation("Email must be 255 characters or less")
        ELSE IF ~ValidateEmail(email) THEN validation("Invalid email format")
        ELSE Ok(email)

EmailNew(raw) ==
    LET email == ToLowercase(Trim(raw))
    IN  IF email = <<>> THEN validation("Email cannot be empty")
        ELSE IF Len(email) > EmailMaxLen
             THEN validation("Email must be 255 characters or less")
        ELSE IF ~ValidateEmail(email) THEN validation("Invalid email format")
        ELSE Ok(email)

\* PasswordHash: a bcrypt hash is modelled symbolically by the plaintext it
\* was made from; verify is the only operation that looks inside it
PasswordHashFromPlain(password) ==
    IF Len(password) < MIN_LENGTH
    THEN validation("Password must be at least 8 characters")
    ELSE Ok([alg |-> "bcrypt", of |-> password])

PasswordHashVerify(hash, password) == hash.alg = "bcrypt" /\ hash.of = password

\* ----------------------------------------------------------------- User
\* User::new with the id and clock value drawn by the caller
UserNew(email, password, name, id, t) ==
    LET nm == Trim(name)
        ph == PasswordHashFromPlain(password)
    IN  IF nm = <<>> THEN validation("Name cannot be empty")
        ELSE IF Len(nm) > NameMaxLen
             THEN validation("Name must be 255 characters or less")
        ELSE IF ~IsOk(ph) THEN ph
        ELSE Ok([id |-> id, email |-> email, password_hash |-> ph.val[1],
                 name |-> nm, email_verified |-> FALSE, is_active |-> TRUE,
                 created_at |-> t, updated_at |-> t])

verify_password(user, password) ==
    PasswordHashVerify(user.password_hash, password)

\* User::update_name at clock value t: Ok(the user after) or the error
update_name(user, name, t) ==
    LET nm == Trim(name)
    IN  IF nm = <<>> THEN validation("Name cannot be empty")
        ELSE IF Len(nm) > NameMaxLen
             THEN validation("Name must be 255 characters or less")
        ELSE Ok([user EXCEPT !.name = nm, !.updated_at = t])

\* variant of UserProfile::update_name that accepts every name
ProfileUpdateName_Any(profile, name, t) ==
    Ok([profile EXCEPT !.name = name, !.updated_at = t])

\* UserProfile::update_name at clock value t
ProfileUpdateName(profile, name, t) ==
    IF Trim(name) = <<>> THEN validation("Name cannot be empty")
    ELSE Ok([profile EXCEPT !.name = name, !.updated_at = t])

\* variant of change_password that keeps the old hash
change_password_KeepHash(user, new_password, t) ==
    LET new_hash == PasswordHashFromPlain(new_password)
    IN  IF ~IsOk(new_hash) THEN new_hash
        ELSE Ok([user EXCEPT !.updated_at = t])

\* User::change_password at clock value t: Ok(the user after) or the error
change_password(user, new_password, t) ==
    LET new_hash == PasswordHashFromPlain(new_password)
    IN  IF ~IsOk(new_hash) THEN new_hash
        ELSE Ok([user EXCEPT !.password_hash = new_hash.val[1],
                             !.updated_at = t])

\* subtle's ct_eq on two byte strings of one length: no position differs
CtEq(a, b) == \A i \in 1..Len(a) : a[i] = b[i]

\* variant of CsrfToken::verify that compares the lengths only
CsrfTokenVerify_LengthOnly(own, token) == Len(own) = Len(token)

\* CsrfToken::verify
CsrfTokenVerify(own, token) ==
    IF Len(own) # Len(token) THEN FALSE ELSE CtEq(own, token)

\* Session::verify_csrf
verify_csrf(session, token) == CsrfTokenVerify(session.csrf_token, token)

\* variant of can_login that lets every account in
can_login_Always(user) == TRUE

can_login(user) == user.is_active

\* User::deactivate and User::reactivate at clock value t
deactivate(user, t) == [user EXCEPT !.is_active = FALSE, !.updated_at = t]
reactivate(user, t) == [user EXCEPT !.is_active = TRUE, !.updated_at = t]

UserDtoFrom(user) ==
    [id |-> user.id, email |-> user.email, name |-> user.name,
     email_verified |-> user.email_verified, is_active |-> user.is_active,
     created_at |-> user.created_at]

\* ------------------------------------------------------------ JWT engine
\* uuid <-> string conversions used for the sub and jti claims
UuidToString(id) == [uuid |-> id]
UuidParseStr(s) == s.uuid

\* HMAC signature, symbolic: it binds the key and the signed claims
Sign(claims, secret) == [key |-> secret, over |-> claims]

Encode(claims, secret) ==
    [form |-> "jwt", claims |-> claims, sig |-> Sign(claims, secret)]

Garbage == [form |-> "garbage", claims |-> <<>>, sig |-> <<>>]

\* TokenPair::decode: signature and expiry, never the token store
Decode(token, secret, t) ==
    IF token.form # "jwt" THEN authentication("Invalid token")
    ELSE IF token.sig # Sign(token.claims, secret)
         THEN authentication("Invalid token signature")
    ELSE IF token.claims.exp < t - Leeway
         THEN authentication("Token has expired")
    ELSE Ok(token.claims)

\* variant of generate that gives both tokens the type "access"
Generate_AccessOnly(user_id, secret, access_ttl, refresh_ttl, id0, t) ==
    LET claims(jti, ttl) == [sub |-> UuidToString(user_id),
                             jti |-> UuidToString(jti),
                             exp |-> t + ttl, iat |-> t,
                             token_type |-> "access"]
        record(id, jti, type, ttl) ==
            [id |-> id, user_id |-> user_id, token_type |-> type, jti |-> jti,
             expires_at |-> t + ttl, revoked |-> FALSE, revoked_at |-> <<>>,
             created_at |-> t]
    IN  [token_pair |->
             [access_token |-> Encode(claims(id0, access_ttl), secret),
              refresh_token |-> Encode(claims(id0 + 1, refresh_ttl), secret),
              token_type |-> "Bearer", expires_in |-> access_ttl],
         access |-> record(id0 + 2, id0, "access", access_ttl),
         refresh |-> record(id0 + 3, id0 + 1, "refresh", refresh_ttl)]

\* TokenPair::generate at clock value t; new_id() draws id0 .. id0+3 in the
\* order access jti, refresh jti, access record id, refresh record id
Generate(user_id, secret, access_ttl, refresh_ttl, id0, t) ==
    LET iat == t
        access_jti == id0
        refresh_jti == id0 + 1
        access_claims == [sub |-> UuidToString(user_id),
                          jti |-> UuidToString(access_jti),
                          exp |-> iat + access_ttl, iat |-> iat,
                          token_type |-> "access"]
        refresh_claims == [sub |-> UuidToString(user_id),
                           jti |-> UuidToString(refresh_jti),
                           exp |-> iat + refresh_ttl, iat |-> iat,
                           token_type |-> "refresh"]
    IN  [token_pair |-> [access_token |-> Encode(access_claims, secret),
                         refresh_token |-> Encode(refresh_claims, secret),
                         token_type |-> "Bearer",
                         expires_in |-> access_ttl],
         access |-> [id |-> id0 + 2, user_id |-> user_id,
                     token_type |-> "access", jti |-> access_jti,
                     expires_at |-> iat + access_ttl, revoked |-> FALSE,
                     revoked_at |-> <<>>, created_at |-> t],
         refresh |-> [id |-> id0 + 3, user_id |-> user_id,
                      token_type |-> "refresh", jti |-> refresh_jti,
                      expires_at |-> iat + refresh_ttl, revoked |-> FALSE,
                      revoked_at |-> <<>>, created_at |-> t]]

is_expired(tok, t) == t > tok.expires_at
is_revoked(tok) == tok.revoked
is_valid(tok, t) == ~is_expired(tok, t) /\ ~is_revoked(tok)

\* --------------------------------------------------------- repositories
\* Each operator is one SQL statement: the table after it, or its rows.
TokenFindByJti(T, jti) == {r \in T : r.jti = jti}

\* variant of revoke that revokes every record of the record's user
TokenRevoke_Siblings(T, jti, t) ==
    {IF ~r.revoked /\ \E o \in T : o.jti = jti /\ o.user_id = r.user_id
     THEN [r EXCEPT !.revoked = TRUE, !.revoked_at = <<t>>]
     ELSE r : r \in T}

\* variant of revoke that sets the flag and leaves revoked_at empty
TokenRevoke_FlagOnly(T, jti, t) ==
    {IF r.jti = jti /\ r.revoked = FALSE
     THEN [r EXCEPT !.revoked = TRUE]
     ELSE r : r \in T}

\* variant of revoke that updates no row
TokenRevoke_Skipped(T, jti, t) == T

\* variant of revoke without the revoked = false condition
TokenRevoke_Restamp(T, jti, t) ==
    {IF r.jti = jti
     THEN [r EXCEPT !.revoked = TRUE, !.revoked_at = <<t>>]
     ELSE r : r \in T}

\* revoke: UPDATE ... WHERE jti = $1 AND revoked = false
TokenRevoke(T, jti, t) ==
    {IF r.jti = jti /\ r.revoked = FALSE
     THEN [r EXCEPT !.revoked = TRUE, !.revoked_at = <<t>>]
     ELSE r : r \in T}

\* variant of revoke_all_user_tokens without the user_id condition
RevokeAllUserTokens_Everyone(T, user_id, t) ==
    {IF r.revoked = FALSE
     THEN [r EXCEPT !.revoked = TRUE, !.revoked_at = <<t>>]
     ELSE r : r \in T}

\* variant of revoke_all_user_tokens that flips the flag of every row
RevokeAllUserTokens_Toggle(T, user_id, t) ==
    {IF r.user_id = user_id
     THEN [r EXCEPT !.revoked = ~r.revoked, !.revoked_at = <<t>>]
     ELSE r : r \in T}

\* variant of revoke_all_user_tokens that leaves refresh tokens alone
RevokeAllUserTokens_AccessOnly(T, user_id, t) ==
    {IF r.user_id = user_id /\ r.revoked = FALSE /\ r.token_type = "access"
     THEN [r EXCEPT !.revoked = TRUE, !.revoked_at = <<t>>]
     ELSE r : r \in T}

\* variant that revokes the refresh records only
RevokeAllUserTokens_RefreshOnly(T, user_id, t) ==
    {IF r.user_id = user_id /\ ~r.revoked /\ r.token_type = "refresh"
         THEN [r EXCEPT !.revoked = TRUE, !.revoked_at = <<t>>] ELSE r : r \in T}

\* revoke_all_user_tokens: UPDATE ... WHERE user_id = $1 AND revoked = false
RevokeAllUserTokens(T, user_id, t) ==
    {IF r.user_id = user_id /\ r.revoked = FALSE
     THEN [r EXCEPT !.revoked = TRUE, !.revoked_at = <<t>>]
     ELSE r : r \in T}

\* variant of delete_expired that also removes the records expiring now
TokenDeleteExpired_Inclusive(T, t) == {r \in T : ~(r.expires_at <= t)}

TokenDeleteExpired(T, t) == {r \in T : ~(r.expires_at < t)}

UserFindByEmail(U, email) == {u \in U : u.email = email}

\* UserProfile as selected from the users row; bio and avatar_url are None
UserProfileFrom(u) ==
    [user_id |-> u.id, name |-> u.name, email |-> u.email, bio |-> <<>>,
     avatar_url |-> <<>>, updated_at |-> u.updated_at]

\* UserRepository::find_by_id
UserFindById(U, id) == {u \in U : u.id = id}

\* UserProfileRepository::find_by_user_id: SELECT ... FROM users WHERE id = $1
ProfileFindByUserId(U, user_id) ==
    {UserProfileFrom(u) : u \in UserFindById(U, user_id)}

\* UserProfileRepository::update: UPDATE users SET name, bio, avatar_url,
\* updated_at WHERE id = $5
ProfileUpdate(U, profile) ==
    {IF u.id = profile.user_id
     THEN [u EXCEPT !.name = profile.name, !.updated_at = profile.updated_at]
     ELSE u : u \in U}

\* UserRepository::update: UPDATE users SET ... WHERE id = $1
UserUpdate(U, user) == {IF u.id = user.id THEN user ELSE u : u \in U}

\* the unique index on users.email
EmailUnique(U, user) == \A u \in U : u.email # user.email

\* variant of save that reports a unique violation as an internal error
UserSave_Internal(U, user) ==
    IF EmailUnique(U, user)
    THEN [table |-> U \cup {user}, result |-> Ok(user)]
    ELSE [table |-> U, result |-> internal("Database error")]

\* UserRepository::save: the table and the result of the INSERT
UserSave(U, user) ==
    IF EmailUnique(U, user)
    THEN [table |-> U \cup {user}, result |-> Ok(user)]
    ELSE [table |-> U, result |-> conflict("Email already exists")]

\* variant of delete_by_user_id that deletes no row
SessionDeleteByUserId_Skipped(S, user_id) == S

SessionDeleteByUserId(S, user_id) == {s \in S : s.user_id # user_id}

\* variant that empties the table when no row has the id
SessionDelete_Wipe(S, id) ==
    IF \E s \in S : s.id = id THEN {s \in S : s.id # id} ELSE {}

\* SessionRepository::delete: DELETE FROM sessions WHERE id = $1; no row
\* affected is logged as a warning and is not an error
SessionDelete(S, id) == {s \in S : s.id # id}

SessionDeleteExpired(S, t) == {s \in S : ~(s.expires_at < t)}

\* find_by_user_id: ORDER BY created_at DESC LIMIT 1; rows with the same
\* created_at may come back in either order, so the result is a set of
\* the rows the query can return
SessionFindByUserId(S, user_id) ==
    {s \in S : /\ s.user_id = user_id
               /\ \A o \in S : o.user_id = user_id
                      => o.created_at <= s.created_at}

\* Session::new; the CSRF token is fresh random material, named by the id
SessionNew(user_id, ttl, id, t) ==
    [id |-> id, user_id |-> user_id, csrf_token |-> [csrf |-> id],
     expires_at |-> t + ttl, created_at |-> t, updated_at |-> t]

\* ------------------------------------------------------- client inputs
GoodEmail == <<"a", "@", "b">>
CaseEmail == <<"A", "@", "b">>
PaddedEmail == <<" ", "a", "@", "b">>
OtherEmail == <<"c", "@", "b">>
BadEmail == <<"a", "b">>
GoodPassword == "password123"
WrongPassword == "wrongpass99"
ShortPassword == "short"
GoodName == <<"A">>
BlankName == <<" ">>
AttackerSecret == "attacker-secret"

\* --------------------------------------------------------------- state
VARIABLES
    users,      \* table users
    sessions,   \* table sessions
    tokens,     \* table jwt_tokens
    now,        \* the clock, in units of Leeway
    nextId,     \* the next values new_id() returns, per kind of entity
    pc,         \* per process: the await point it is at, "idle" when free
    op,         \* per process: the use case it runs
    arg,        \* per process: the command
    loc,        \* per process: local variables and history flags
    ret,        \* the response on its way to the caller, if there is one
    issued,     \* token strings that were returned to clients
    spent,      \* history: jtis a refresh has returned Ok for
    loggedOut,  \* history: jtis that existed for u when
                \* revoke_all_user_tokens(u) ran
    logins,     \* history: login_api executions that got to mint a pair
    quiet       \* history: users logout_api returned for, with no login
                \* under way then and none started since

vars == <<users, sessions, tokens, now, nextId, pc, op, arg, loc, ret,
          issued, spent, loggedOut, logins, quiet>>

stores == <<users, sessions, tokens>>
history == <<spent, loggedOut, logins, quiet>>
procs == <<pc, op, arg, loc>>

NoArg == [none |-> TRUE]

EmptyLoc ==
    [user |-> {}, session |-> {}, stored |-> {}, gen |-> {},
     alone |-> FALSE, prior |-> FALSE, lo0 |-> FALSE, before |-> 0,
     again |-> FALSE, forwarded |-> FALSE, inactive |-> FALSE]

NoRet == [op |-> "none", arg |-> NoArg, loc |-> EmptyLoc, res |-> NoResult]

Idle(q) == pc[q] = "idle"

Init ==
    /\ users = {} /\ sessions = {} /\ tokens = {}
    /\ now = 0
    /\ nextId = [user |-> 1, session |-> 1, token |-> 1]
    /\ pc = [p \in Procs |-> "idle"]
    /\ op = [p \in Procs |-> "none"]
    /\ arg = [p \in Procs |-> NoArg]
    /\ loc = [p \in Procs |-> EmptyLoc]
    /\ ret = NoRet
    /\ issued = {} /\ spent = {} /\ loggedOut = {} /\ quiet = {}
    /\ logins = 0

\* the jti a presented token string carries, 0 when it carries none
ArgJti(token) ==
    IF token.form = "jwt" THEN UuidParseStr(token.claims.jti) ELSE 0

\* users an e-mail input refers to
UsersOfRaw(raw) ==
    {u.id : u \in {v \in users : v.email = ToLowercase(Trim(raw))}}

\* Processes are interchangeable: the lowest free one takes an execution.
\* The server takes its next step once the last response has left.
Ready == ret = NoRet
Free(p) == Ready /\ Idle(p) /\ \A q \in Procs : q < p => ~Idle(q)

Alone(p) == \A q \in Procs \ {p} : Idle(q)

\* executions in flight are no longer alone once p starts one
Overlap(p, f) ==
    [q \in Procs |-> IF q = p THEN f
                     ELSE IF Idle(q) THEN loc[q]
                     ELSE [loc[q] EXCEPT !.alone = FALSE]]

\* p takes up execution o(a) with locals l and suspends at label
Begin(p, o, a, l, label) ==
    /\ Free(p)
    /\ pc' = [pc EXCEPT ![p] = label]
    /\ op' = [op EXCEPT ![p] = o]
    /\ arg' = [arg EXCEPT ![p] = a]
    /\ loc' = Overlap(p, l)
    /\ ret' = NoRet

\* p runs execution o(a) to its return without suspending
BeginReturn(p, o, a, l, r) ==
    /\ Free(p)
    /\ loc' = Overlap(p, EmptyLoc)
    /\ ret' = [op |-> o, arg |-> a, loc |-> l, res |-> r]
    /\ UNCHANGED <<pc, op, arg>>

\* p resumes at its await point, updates its locals to l, suspends at label
Step(p, l, label) ==
    /\ pc' = [pc EXCEPT ![p] = label]
    /\ loc' = [loc EXCEPT ![p] = l]
    /\ ret' = NoRet
    /\ UNCHANGED <<op, arg>>

\* p resumes at its await point and returns r
Return(p, l, r) ==
    /\ pc' = [pc EXCEPT ![p] = "idle"]
    /\ op' = [op EXCEPT ![p] = "none"]
    /\ arg' = [arg EXCEPT ![p] = NoArg]
    /\ loc' = [loc EXCEPT ![p] = EmptyLoc]
    /\ ret' = [op |-> op[p], arg |-> arg[p], loc |-> l, res |-> r]

At(p, o, label) == Ready /\ pc[p] = label /\ op[p] = o

\* the response leaves the server
Respond ==
    /\ ret # NoRet
    /\ ret' = NoRet
    /\ UNCHANGED <<stores, now, nextId, procs, issued, history>>

\* ------------------------------------------------------ RegisterUser
\* variant of validate() that checks the e-mail only
CmdValidate_EmailOnly(cmd) ==
    IF ~ValidateEmail(cmd.email) THEN validation("Validation failed: email")
    ELSE Ok(cmd)

\* cmd.validate(): the derive(Validate) rules of RegisterUserCommand
\* the message names the fields that failed
CmdValidate(cmd) ==
    LET bad == <<~ValidateEmail(cmd.email), Len(cmd.password) < 8,
                 Len(cmd.name) < 1>>
    IN  CASE bad = <<FALSE, FALSE, FALSE>> -> Ok(cmd)
          [] bad = <<TRUE, FALSE, FALSE>> ->
                 validation("Validation failed: email")
          [] bad = <<FALSE, TRUE, FALSE>> ->
                 validation("Validation failed: password")
          [] bad = <<FALSE, FALSE, TRUE>> ->
                 validation("Validation failed: name")
          [] OTHER -> validation("Validation failed: several fields")

\* steps 1-2 of execute: the code before the first await
RegisterParse(cmd) ==
    LET v == CmdValidate(cmd)
    IN  IF IsOk(v) THEN EmailNew(cmd.email) ELSE v

\* steps 3-4 of execute on the rows find_by_email returned
RegisterCheck(found, email, cmd, id, t) ==
    IF found # {} THEN conflict("Email already exists")
    ELSE UserNew(email, cmd.password, cmd.name, id, t)

\* execute up to its second await: validation, find_by_email, User::new
Register_Find(p, cmd) ==
    LET e == RegisterParse(cmd)
        l == [EmptyLoc EXCEPT !.prior =
                 \E u \in users : u.email = ToLowercase(Trim(cmd.email))]
        user == RegisterCheck(UserFindByEmail(users, e.val[1]), e.val[1], cmd,
                              nextId.user, now)
    IN  /\ Free(p)
        /\ IF ~IsOk(e)
           THEN /\ BeginReturn(p, "register", cmd, l, e)
                /\ UNCHANGED nextId
           ELSE IF ~IsOk(user)
           THEN /\ BeginReturn(p, "register", cmd, l, user)
                /\ UNCHANGED nextId
           ELSE /\ nextId.user <= MaxUsers
                /\ Begin(p, "register", cmd, [l EXCEPT !.user = {user.val[1]}],
                         "rg_save")
                /\ nextId' = [nextId EXCEPT !.user = @ + 1]
        /\ quiet' = quiet \ UsersOfRaw(cmd.email)
        /\ UNCHANGED <<stores, now, issued, spent, loggedOut, logins>>

\* user_repo.save, then the DTO
Register_Save(p) ==
    LET user == CHOOSE u \in loc[p].user : TRUE
        saved == UserSave(users, user)
    IN  /\ At(p, "register", "rg_save")
        /\ users' = saved.table
        /\ IF IsOk(saved.result)
           THEN Return(p, loc[p], Ok(UserDtoFrom(saved.result.val[1])))
           ELSE Return(p, loc[p], saved.result)
        /\ UNCHANGED <<sessions, tokens, now, nextId, issued, history>>

\* --------------------------------------------------------- LoginUser
\* variant of the checks that tells an unknown e-mail from a wrong password
VerifyCredentials_Reveal(found, password) ==
    IF found = {} THEN authentication("User not found")
    ELSE LET user == CHOOSE u \in found : TRUE
         IN  IF ~verify_password(user, password)
             THEN authentication("Invalid email or password")
             ELSE IF ~can_login(user)
                  THEN authentication("Account is not active")
             ELSE Ok(user)

\* steps 1-3 of login_web and login_api on the rows find_by_email returned
VerifyCredentials(found, password) ==
    IF found = {} THEN authentication("Invalid email or password")
    ELSE LET user == CHOOSE u \in found : TRUE
         IN  IF ~verify_password(user, password)
             THEN authentication("Invalid email or password")
             ELSE IF ~can_login(user)
                  THEN authentication("Account is not active")
             ELSE Ok(user)

\* executions in flight that are at one of the labels
InFlight(labels) == Cardinality({q \in Procs : pc[q] \in labels})

\* variant of login_web that deletes the user's sessions before the checks
LoginWeb_Find_DeleteFirst(p, cmd) ==
    LET e == EmailNew(cmd.email)
        found == UserFindByEmail(users, e.val[1])
        v == VerifyCredentials(found, cmd.password)
        l == [EmptyLoc EXCEPT !.user = found, !.alone = Alone(p)]
    IN  /\ Free(p)
        /\ IF ~IsOk(e)
           THEN /\ BeginReturn(p, "login_web", cmd, EmptyLoc, e)
                /\ sessions' = sessions
           ELSE IF ~IsOk(v)
           THEN /\ BeginReturn(p, "login_web", cmd, l, v)
                /\ sessions' = {s \in sessions : \A u \in found : s.user_id # u.id}
           ELSE /\ nextId.session + InFlight({"lw_delete"}) <= MaxSessions
                /\ Begin(p, "login_web", cmd, l, "lw_delete")
                /\ sessions' = sessions
        /\ quiet' = quiet \ UsersOfRaw(cmd.email)
        /\ UNCHANGED <<users, tokens, now, nextId, issued, spent, loggedOut, logins>>

\* login_web up to its second await: Email::new, find_by_email, the checks
LoginWeb_Find(p, cmd) ==
    LET e == EmailNew(cmd.email)
        found == UserFindByEmail(users, e.val[1])
        v == VerifyCredentials(found, cmd.password)
        l == [EmptyLoc EXCEPT !.user = found, !.alone = Alone(p)]
    IN  /\ Free(p)
        /\ IF ~IsOk(e) THEN BeginReturn(p, "login_web", cmd, EmptyLoc, e)
           ELSE IF ~IsOk(v) THEN BeginReturn(p, "login_web", cmd, l, v)
           ELSE /\ nextId.session + InFlight({"lw_delete"}) <= MaxSessions
                /\ Begin(p, "login_web", cmd, l, "lw_delete")
        /\ quiet' = quiet \ UsersOfRaw(cmd.email)
        /\ UNCHANGED <<stores, now, nextId, issued, spent, loggedOut, logins>>

\* delete_by_user_id, then Session::new
LoginWeb_Delete(p) ==
    LET user == CHOOSE u \in loc[p].user : TRUE
    IN  /\ At(p, "login_web", "lw_delete")
        /\ sessions' = SessionDeleteByUserId(sessions, user.id)
        /\ Step(p, [loc[p] EXCEPT
             !.session = {SessionNew(user.id, SessionTtl, nextId.session, now)},
             !.before = Cardinality({s \in sessions : s.user_id = user.id})],
             "lw_save_delete")
        /\ nextId' = [nextId EXCEPT !.session = @ + 1]
        /\ UNCHANGED <<users, tokens, now, issued, history>>

\* SessionRepository::save, first statement: delete_by_user_id
LoginWeb_SaveDelete(p) ==
    LET session == CHOOSE s \in loc[p].session : TRUE
    IN  /\ At(p, "login_web", "lw_save_delete")
        /\ sessions' = SessionDeleteByUserId(sessions, session.user_id)
        /\ Step(p, loc[p], "lw_save_insert")
        /\ UNCHANGED <<users, tokens, now, nextId, issued, history>>

\* SessionRepository::save, second statement: the INSERT
LoginWeb_SaveInsert(p) ==
    LET session == CHOOSE s \in loc[p].session : TRUE
        user == CHOOSE u \in loc[p].user : TRUE
    IN  /\ At(p, "login_web", "lw_save_insert")
        /\ sessions' = sessions \cup {session}
        /\ Return(p, loc[p], Ok([user |-> UserDtoFrom(user), session |-> session]))
        /\ UNCHANGED <<users, tokens, now, nextId, issued, history>>

\* pairs minted so far and pairs executions in flight will still mint
PairsClaimed == (nextId.token - 1) \div 4 + InFlight({"rt_revoke"})

\* login_api up to its second await: Email::new, find_by_email, the checks,
\* TokenPair::generate
LoginApi_Find(p, cmd) ==
    LET e == EmailNew(cmd.email)
        found == UserFindByEmail(users, e.val[1])
        v == VerifyCredentials(found, cmd.password)
        l == [EmptyLoc EXCEPT !.user = found]
    IN  /\ Free(p)
        /\ IF ~IsOk(e)
           THEN /\ BeginReturn(p, "login_api", cmd, EmptyLoc, e)
                /\ UNCHANGED <<nextId, logins>>
           ELSE IF ~IsOk(v)
           THEN /\ BeginReturn(p, "login_api", cmd, l, v)
                /\ UNCHANGED <<nextId, logins>>
           ELSE /\ PairsClaimed < MaxPairs /\ logins < MaxLogins
                /\ logins' = logins + 1
                /\ Begin(p, "login_api", cmd, [l EXCEPT !.gen =
                       {Generate(v.val[1].id, JwtSecret, AccessTtl, RefreshTtl,
                                 nextId.token, now)}], "save_access")
                /\ nextId' = [nextId EXCEPT !.token = @ + 4]
        /\ quiet' = quiet \ UsersOfRaw(cmd.email)
        /\ UNCHANGED <<stores, now, issued, spent, loggedOut>>

\* TokenRepository::save: the INSERT into jwt_tokens
TokenSave(T, token) == T \cup {token}

\* token_repo.save(&access_token)
LoginApi_SaveAccess(p) ==
    LET gen == CHOOSE g \in loc[p].gen : TRUE
    IN  /\ At(p, "login_api", "save_access")
        /\ tokens' = TokenSave(tokens, gen.access)
        /\ Step(p, loc[p], "save_refresh")
        /\ UNCHANGED <<users, sessions, now, nextId, issued, history>>

\* token_repo.save(&refresh_token), then the Ok result
LoginApi_SaveRefresh(p) ==
    LET gen == CHOOSE g \in loc[p].gen : TRUE
        pair == gen.token_pair
        user == CHOOSE u \in loc[p].user : TRUE
    IN  /\ At(p, "login_api", "save_refresh")
        /\ tokens' = TokenSave(tokens, gen.refresh)
        /\ issued' = issued \cup {pair.access_token, pair.refresh_token}
        /\ Return(p, loc[p], Ok([user |-> UserDtoFrom(user), token_pair |-> pair]))
        /\ UNCHANGED <<users, sessions, now, nextId, history>>

\* ------------------------------------------------------ RefreshToken
\* variant of steps 1-3 that accepts a token of any type
RefreshDecode_AnyType(token, t) ==
    LET claims == Decode(token, JwtSecret, t)
    IN  IF ~IsOk(claims) THEN claims
        ELSE Ok(UuidParseStr(claims.val[1].jti))

\* steps 1-3 of execute: decode, the token_type check, the jti
RefreshDecode(token, t) ==
    LET claims == Decode(token, JwtSecret, t)
    IN  IF ~IsOk(claims) THEN claims
        ELSE IF claims.val[1].token_type # "refresh"
             THEN authentication("Invalid token type, expected refresh token")
        ELSE Ok(UuidParseStr(claims.val[1].jti))

\* step 4 of execute on the rows find_by_jti returned
RefreshCheckStored(found, t) ==
    IF found = {} THEN authentication("Token not found")
    ELSE LET stored_token == CHOOSE r \in found : TRUE
         IN  IF is_revoked(stored_token)
             THEN authentication("Token has been revoked")
             ELSE IF is_expired(stored_token, t)
                  THEN authentication("Token has expired")
             ELSE Ok(stored_token)

\* history: the user the token names is stored and is not active
Inactive(token) ==
    /\ token.form = "jwt"
    /\ \E u \in users : u.id = UuidParseStr(token.claims.sub) /\ ~u.is_active

\* variant of execute that refuses the token of a user who is not active
Refresh_Find_ActiveOnly(p, token) ==
    LET d == RefreshDecode(token, now)
        l == [EmptyLoc EXCEPT
                 !.prior = token \in issued /\ ArgJti(token) \in spent,
                 !.lo0 = token \in issued /\ ArgJti(token) \in loggedOut,
                 !.inactive = Inactive(token)]
        found == TokenFindByJti(tokens, d.val[1])
        c == RefreshCheckStored(found, now)
        lf == [l EXCEPT !.stored = found]
    IN  /\ Free(p)
        /\ IF ~IsOk(d) THEN BeginReturn(p, "refresh", token, l, d)
           ELSE IF ~IsOk(c) THEN BeginReturn(p, "refresh", token, lf, c)
           ELSE IF Inactive(token)
           THEN BeginReturn(p, "refresh", token, lf,
                            authentication("Account is not active"))
           ELSE /\ PairsClaimed < MaxPairs
                /\ Begin(p, "refresh", token, lf, "rt_revoke")
        /\ UNCHANGED <<stores, now, nextId, issued, history>>

\* execute up to its second await: decode, find_by_jti, the checks
Refresh_Find(p, token) ==
    LET d == RefreshDecode(token, now)
        l == [EmptyLoc EXCEPT
                 !.prior = token \in issued /\ ArgJti(token) \in spent,
                 !.lo0 = token \in issued /\ ArgJti(token) \in loggedOut,
                 !.inactive = Inactive(token)]
        found == TokenFindByJti(tokens, d.val[1])
        c == RefreshCheckStored(found, now)
        lf == [l EXCEPT !.stored = found]
    IN  /\ Free(p)
        /\ IF ~IsOk(d) THEN BeginReturn(p, "refresh", token, l, d)
           ELSE IF ~IsOk(c) THEN BeginReturn(p, "refresh", token, lf, c)
           ELSE /\ PairsClaimed < MaxPairs
                /\ Begin(p, "refresh", token, lf, "rt_revoke")
        /\ UNCHANGED <<stores, now, nextId, issued, history>>

\* variant of the step that mints the pair without revoking first
Refresh_Revoke_MintOnly(p) ==
    LET user_id == UuidParseStr(arg[p].claims.sub)
    IN  /\ At(p, "refresh", "rt_revoke")
        /\ Step(p, [loc[p] EXCEPT !.gen =
               {Generate(user_id, JwtSecret, AccessTtl, RefreshTtl,
                         nextId.token, now)}], "save_access")
        /\ nextId' = [nextId EXCEPT !.token = @ + 4]
        /\ UNCHANGED <<users, sessions, tokens, now, issued, history>>

\* variant of the step that mints the pair for the first user
Refresh_Revoke_FirstUser(p) ==
    /\ At(p, "refresh", "rt_revoke")
    /\ tokens' = TokenRevoke(tokens, ArgJti(arg[p]), now)
    /\ Step(p, [loc[p] EXCEPT !.gen =
           {Generate(1, JwtSecret, AccessTtl, RefreshTtl, nextId.token, now)}],
           "save_access")
    /\ nextId' = [nextId EXCEPT !.token = @ + 4]
    /\ UNCHANGED <<users, sessions, now, issued, history>>

\* token_repo.revoke(jti), then TokenPair::generate for claims.sub
Refresh_Revoke(p) ==
    LET user_id == UuidParseStr(arg[p].claims.sub)
    IN  /\ At(p, "refresh", "rt_revoke")
        /\ tokens' = TokenRevoke(tokens, ArgJti(arg[p]), now)
        /\ Step(p, [loc[p] EXCEPT !.gen =
               {Generate(user_id, JwtSecret, AccessTtl, RefreshTtl,
                         nextId.token, now)}], "save_access")
        /\ nextId' = [nextId EXCEPT !.token = @ + 4]
        /\ UNCHANGED <<users, sessions, now, issued, history>>

\* token_repo.save(&access_token)
Refresh_SaveAccess(p) ==
    LET gen == CHOOSE g \in loc[p].gen : TRUE
    IN  /\ At(p, "refresh", "save_access")
        /\ tokens' = TokenSave(tokens, gen.access)
        /\ Step(p, loc[p], "save_refresh")
        /\ UNCHANGED <<users, sessions, now, nextId, issued, history>>

\* token_repo.save(&refresh_token), then Ok(token_pair)
Refresh_SaveRefresh(p) ==
    LET gen == CHOOSE g \in loc[p].gen : TRUE
        pair == gen.token_pair
    IN  /\ At(p, "refresh", "save_refresh")
        /\ tokens' = TokenSave(tokens, gen.refresh)
        /\ issued' = issued \cup {pair.access_token, pair.refresh_token}
        /\ spent' = spent \cup {ArgJti(arg[p])}
        /\ Return(p, [loc[p] EXCEPT !.again = ArgJti(arg[p]) \in spent], Ok(pair))
        /\ UNCHANGED <<users, sessions, now, nextId, loggedOut, quiet, logins>>

\* -------------------------------------------------------- LogoutUser
Logout_Web(p, session_id) ==
    /\ BeginReturn(p, "logout_web", [session_id |-> session_id], EmptyLoc,
                   Ok("unit"))
    /\ sessions' = SessionDelete(sessions, session_id)
    /\ UNCHANGED <<users, tokens, now, nextId, issued, history>>

\* a login_api execution for the user is between its awaits
LoginApiUnderWay(user_id) ==
    \E q \in Procs : op[q] = "login_api" /\ \E v \in loc[q].user : v.id = user_id

Logout_Api(p, user_id) ==
    /\ BeginReturn(p, "logout_api", [user_id |-> user_id], EmptyLoc, Ok("unit"))
    /\ tokens' = RevokeAllUserTokens(tokens, user_id, now)
    /\ loggedOut' = loggedOut \cup
           {r.jti : r \in {x \in tokens : x.user_id = user_id}}
    /\ quiet' = IF LoginApiUnderWay(user_id) THEN quiet
                 ELSE quiet \cup {user_id}
    /\ UNCHANGED <<users, sessions, now, nextId, issued, spent, logins>>

\* delete_by_user_id
LogoutAll_Start(p, user_id) ==
    /\ Begin(p, "logout_all", [user_id |-> user_id],
             [EmptyLoc EXCEPT !.alone = Alone(p)], "la_revoke")
    /\ sessions' = SessionDeleteByUserId(sessions, user_id)
    /\ UNCHANGED <<users, tokens, now, nextId, issued, history>>

\* revoke_all_user_tokens
LogoutAll_Revoke(p) ==
    /\ At(p, "logout_all", "la_revoke")
    /\ tokens' = RevokeAllUserTokens(tokens, arg[p].user_id, now)
    /\ loggedOut' = loggedOut \cup
           {r.jti : r \in {x \in tokens : x.user_id = arg[p].user_id}}
    /\ Return(p, loc[p], Ok("unit"))
    /\ UNCHANGED <<users, sessions, now, nextId, issued, spent, quiet, logins>>

\* ------------------------------------------- account administration
\* an operator loads the account, deactivates it and stores it
Deactivate(user_id) ==
    /\ Ready
    /\ \E u \in users :
          /\ u.id = user_id /\ u.is_active
          /\ users' = UserUpdate(users, deactivate(u, now))
    /\ ret' = NoRet
    /\ UNCHANGED <<sessions, tokens, now, nextId, procs, issued, history>>

\* an operator loads the account, reactivates it and stores it
Reactivate(user_id) ==
    /\ Ready
    /\ \E u \in users :
          /\ u.id = user_id /\ ~u.is_active
          /\ users' = UserUpdate(users, reactivate(u, now))
    /\ ret' = NoRet
    /\ UNCHANGED <<sessions, tokens, now, nextId, procs, issued, history>>

\* ------------------------------------------- POST /api/auth/register
\* the handler up to the use case's second await: validate, Email::new,
\* find_by_email, PasswordHash::from_plain, User::new
RegisterApi_Find(p, cmd) ==
    LET e == RegisterParse(cmd)
        user == RegisterCheck(UserFindByEmail(users, e.val[1]), e.val[1], cmd,
                              nextId.user, now)
    IN  /\ Free(p)
        /\ IF ~IsOk(e)
           THEN /\ BeginReturn(p, "register_api", cmd, EmptyLoc, e)
                /\ UNCHANGED nextId
           ELSE IF ~IsOk(user)
           THEN /\ BeginReturn(p, "register_api", cmd, EmptyLoc, user)
                /\ UNCHANGED nextId
           ELSE /\ nextId.user <= MaxUsers /\ PairsClaimed < MaxPairs
                /\ Begin(p, "register_api", cmd,
                         [EmptyLoc EXCEPT !.user = {user.val[1]}], "rg_save")
                /\ nextId' = [nextId EXCEPT !.user = @ + 1]
        /\ quiet' = quiet \ UsersOfRaw(cmd.email)
        /\ UNCHANGED <<stores, now, issued, spent, loggedOut, logins>>

\* variant of the last step that does not store the refresh record
RegisterApi_SaveRefresh_Skipped(p) ==
    LET gen == CHOOSE g \in loc[p].gen : TRUE
        pair == gen.token_pair
        user == CHOOSE u \in loc[p].user : TRUE
    IN  /\ At(p, "register_api", "save_refresh")
        /\ issued' = issued \cup {pair.access_token, pair.refresh_token}
        /\ Return(p, loc[p], Ok([user |-> UserDtoFrom(user), token_pair |-> pair]))
        /\ UNCHANGED <<users, sessions, tokens, now, nextId, history>>

\* user_repo.save ends the use case; the handler goes on to
\* TokenPair::generate for the new user
RegisterApi_Save(p) ==
    LET user == CHOOSE u \in loc[p].user : TRUE
        saved == UserSave(users, user)
    IN  /\ At(p, "register_api", "rg_save")
        /\ users' = saved.table
        /\ IF IsOk(saved.result)
           THEN /\ Step(p, [loc[p] EXCEPT !.gen =
                       {Generate(user.id, JwtSecret, AccessTtl, RefreshTtl,
                                 nextId.token, now)}], "save_access")
                /\ nextId' = [nextId EXCEPT !.token = @ + 4]
           ELSE /\ Return(p, loc[p], saved.result)
                /\ UNCHANGED nextId
        /\ UNCHANGED <<sessions, tokens, now, issued, history>>

\* state.token_repo.save(&access_token)
RegisterApi_SaveAccess(p) ==
    LET gen == CHOOSE g \in loc[p].gen : TRUE
    IN  /\ At(p, "register_api", "save_access")
        /\ tokens' = TokenSave(tokens, gen.access)
        /\ Step(p, loc[p], "save_refresh")
        /\ UNCHANGED <<users, sessions, now, nextId, issued, history>>

\* state.token_repo.save(&refresh_token), then the 201 response
RegisterApi_SaveRefresh(p) ==
    LET gen == CHOOSE g \in loc[p].gen : TRUE
        pair == gen.token_pair
        user == CHOOSE u \in loc[p].user : TRUE
    IN  /\ At(p, "register_api", "save_refresh")
        /\ tokens' = TokenSave(tokens, gen.refresh)
        /\ issued' = issued \cup {pair.access_token, pair.refresh_token}
        /\ Return(p, loc[p], Ok([user |-> UserDtoFrom(user), token_pair |-> pair]))
        /\ UNCHANGED <<users, sessions, now, nextId, history>>

\* ------------------------------------------------- JWT-protected routes
\* the Authorization header of a request
NoHeader == [scheme |-> "none", token |-> Garbage]
Basic == [scheme |-> "Basic", token |-> Garbage]
Bearer(token) == [scheme |-> "Bearer", token |-> token]

\* jwt_auth_middleware up to next.run: Ok(AuthenticatedUser) or the error
jwt_auth_middleware(header, T, t) ==
    IF header.scheme = "none"
    THEN authentication("Missing Authorization header")
    ELSE IF header.scheme # "Bearer"
    THEN authentication("Invalid Authorization header format")
    ELSE LET claims == Decode(header.token, JwtSecret, t)
         IN  IF ~IsOk(claims) THEN claims
             ELSE LET found == TokenFindByJti(T, UuidParseStr(claims.val[1].jti))
                  IN  IF found = {} THEN authentication("Token not found")
                      ELSE IF is_revoked(CHOOSE r \in found : TRUE)
                      THEN authentication("Token has been revoked")
                      ELSE Ok([user_id |-> UuidParseStr(claims.val[1].sub)])

\* the handlers of /api/user: get_profile, update_profile, change_password
UserRoutes == {"get_profile", "update_profile", "change_password"}
UserApiHandler(route) ==
    authentication("JWT authentication not yet implemented")

\* a request to /api/user/*: the middleware, then the handler if the
\* middleware lets the request through
UserApi(p, route, header) ==
    LET auth == jwt_auth_middleware(header, tokens, now)
        l == [EmptyLoc EXCEPT !.forwarded = IsOk(auth),
                              !.stored = TokenFindByJti(tokens, ArgJti(header.token))]
    IN  /\ BeginReturn(p, route, header, l,
                       IF IsOk(auth) THEN UserApiHandler(route) ELSE auth)
        /\ UNCHANGED <<stores, now, nextId, issued, history>>

\* POST /api/auth/logout: the route has no middleware and the handler
\* answers 204 No Content
Api_Logout(p, header) ==
    /\ BeginReturn(p, "api_logout", header, EmptyLoc, Ok([status |-> 204]))
    /\ UNCHANGED <<stores, now, nextId, issued, history>>

\* ------------------------------------------------------ ChangePassword
ChangePasswordCommand(current, new, confirmation) ==
    [current_password |-> current, new_password |-> new,
     new_password_confirmation |-> confirmation]

\* variant of the checks without the comparison of the confirmation
ChangePasswordCheck_NoConfirmation(found, cmd, t) ==
    IF Len(cmd.new_password) < 8
    THEN validation("new_password: Password must be at least 8 characters")
    ELSE IF found = {} THEN not_found("User not found")
    ELSE LET user == CHOOSE u \in found : TRUE
         IN  IF ~verify_password(user, cmd.current_password)
             THEN authentication("Invalid current password")
             ELSE change_password(user, cmd.new_password, t)

\* steps 1-5 of execute on the rows find_by_id returned: Ok(the user to
\* store) or the error
ChangePasswordCheck(found, cmd, t) ==
    IF Len(cmd.new_password) < 8
    THEN validation("new_password: Password must be at least 8 characters")
    ELSE IF cmd.new_password # cmd.new_password_confirmation
    THEN validation("Passwords do not match")
    ELSE IF found = {} THEN not_found("User not found")
    ELSE LET user == CHOOSE u \in found : TRUE
         IN  IF ~verify_password(user, cmd.current_password)
             THEN authentication("Invalid current password")
             ELSE change_password(user, cmd.new_password, t)

\* execute up to its second await: validation, find_by_id, the checks,
\* change_password
ChangePassword_Find(p, user_id, cmd) ==
    LET found == UserFindById(users, user_id)
        c == ChangePasswordCheck(found, cmd, now)
        a == [user_id |-> user_id, cmd |-> cmd]
        l == [EmptyLoc EXCEPT !.user = found]
    IN  /\ Free(p)
        /\ IF ~IsOk(c) THEN BeginReturn(p, "change_password", a, l, c)
           ELSE Begin(p, "change_password", a,
                      [l EXCEPT !.stored = {c.val[1]}], "cp_update")
        /\ UNCHANGED <<stores, now, nextId, issued, history>>

\* variant of the last step that also deletes the user's sessions
ChangePassword_Update_Logout(p) ==
    LET user == CHOOSE u \in loc[p].stored : TRUE
    IN  /\ At(p, "change_password", "cp_update")
        /\ users' = UserUpdate(users, user)
        /\ sessions' = SessionDeleteByUserId(sessions, user.id)
        /\ IF UserFindById(users, user.id) = {}
           THEN Return(p, loc[p], not_found("User not found"))
           ELSE Return(p, loc[p], Ok("unit"))
        /\ UNCHANGED <<tokens, now, nextId, issued, history>>

\* user_repo.update(&user), then Ok(())
ChangePassword_Update(p) ==
    LET user == CHOOSE u \in loc[p].stored : TRUE
    IN  /\ At(p, "change_password", "cp_update")
        /\ users' = UserUpdate(users, user)
        /\ IF UserFindById(users, user.id) = {}
           THEN Return(p, loc[p], not_found("User not found"))
           ELSE Return(p, loc[p], Ok("unit"))
        /\ UNCHANGED <<sessions, tokens, now, nextId, issued, history>>

\* ------------------------------------------------------- UpdateProfile
UpdateProfileCommand(name) == [name |-> name, bio |-> <<>>, avatar_url |-> <<>>]

\* steps 1-3 of execute on the rows find_by_user_id returned: Ok(the
\* profile to store) or the error; bio and avatar_url are None
UpdateProfileCheck(found, cmd, t) ==
    IF Len(cmd.name) < 1 THEN validation("name: Name cannot be empty")
    ELSE IF found = {} THEN not_found("Profile not found")
    ELSE ProfileUpdateName(CHOOSE pr \in found : TRUE, cmd.name, t)

\* execute up to its second await: validation, find_by_user_id, update_name
UpdateProfile_Find(p, user_id, cmd) ==
    LET found == ProfileFindByUserId(users, user_id)
        c == UpdateProfileCheck(found, cmd, now)
        a == [user_id |-> user_id, cmd |-> cmd]
        l == [EmptyLoc EXCEPT !.user = UserFindById(users, user_id)]
    IN  /\ Free(p)
        /\ IF ~IsOk(c) THEN BeginReturn(p, "update_profile_uc", a, l, c)
           ELSE Begin(p, "update_profile_uc", a,
                      [l EXCEPT !.stored = {c.val[1]}], "up_update")
        /\ UNCHANGED <<stores, now, nextId, issued, history>>

\* profile_repo.update(&profile): the row as returned, or RowNotFound. The
\* width of the column users.name is set by the migrations: a name longer
\* than the column is either stored (TEXT) or refused by the database
\* (VARCHAR), and the ? turns the refusal into AppError::Database.
UpdateProfile_Update(p) ==
    LET profile == CHOOSE pr \in loc[p].stored : TRUE
    IN  /\ At(p, "update_profile_uc", "up_update")
        /\ \/ /\ users' = ProfileUpdate(users, profile)
              /\ IF UserFindById(users, profile.user_id) = {}
                 THEN Return(p, loc[p], database("no rows returned"))
                 ELSE Return(p, loc[p], Ok(profile))
           \/ /\ Len(profile.name) > NameMaxLen
              /\ users' = users
              /\ Return(p, loc[p], database("value too long for type character varying"))
        /\ UNCHANGED <<sessions, tokens, now, nextId, issued, history>>

\* the account is loaded, renamed with User::update_name and stored
UpdateName(user_id, name) ==
    /\ Ready
    /\ \E u \in users :
          /\ u.id = user_id
          /\ LET r == update_name(u, name, now)
             IN  users' = IF IsOk(r) THEN UserUpdate(users, r.val[1]) ELSE users
    /\ ret' = [op |-> "update_name", arg |-> [user_id |-> user_id, name |-> name],
               loc |-> EmptyLoc,
               res |-> LET u == CHOOSE v \in users : v.id = user_id
                       IN  update_name(u, name, now)]
    /\ UNCHANGED <<sessions, tokens, now, nextId, procs, issued, history>>

\* ------------------------------------------------ calls into the domain
\* the values the callers below pass in
MaxTtl == 2
MaxCsrfLen == 3
Ttls == 0..MaxTtl
Clock == 0..MaxTime
Secrets == {JwtSecret, AttackerSecret}
NewPassword == "newpassword1"
Passwords == {GoodPassword, WrongPassword, NewPassword, ShortPassword}
CsrfChars == {"x", "y"}
CsrfStrings == UNION {[1..n -> CsrfChars] : n \in 0..MaxCsrfLen}
Errors ==
    {Err(k, m) : k \in {"Database", "Validation", "Authentication",
                        "Authorization", "NotFound", "Conflict", "Internal",
                        "Config", "BadRequest"},
                 m \in {"Failed to save token: pool timed out",
                        "Failed to find user: relation users does not exist",
                        "JWT_SECRET is not set", "Token not found",
                        "Name cannot be empty", "Email already exists"}}

\* TokenPair::generate(user_id, secret, access_ttl, refresh_ttl) at clock t
Generate_Call(user_id, secret, access_ttl, refresh_ttl, t) ==
    /\ Ready
    /\ ret' = [op |-> "generate",
               arg |-> [user_id |-> user_id, secret |-> secret,
                        access_ttl |-> access_ttl,
                        refresh_ttl |-> refresh_ttl, t |-> t],
               loc |-> EmptyLoc,
               res |-> Ok(Generate(user_id, secret, access_ttl, refresh_ttl,
                                   nextId.token, t))]
    /\ UNCHANGED <<stores, now, nextId, procs, issued, history>>

\* TokenPair::decode(token, secret) at clock t, for a token of the pair
\* generate has just returned
Decode_Call(type, secret, t) ==
    /\ ret.op = "generate" /\ t >= ret.arg.t
    /\ LET pair == ret.res.val[1].token_pair
           token == IF type = "access" THEN pair.access_token
                    ELSE pair.refresh_token
       IN  ret' = [op |-> "decode",
                   arg |-> [token |-> token, secret |-> secret, t |-> t,
                            type |-> type, generated |-> ret.arg],
                   loc |-> EmptyLoc,
                   res |-> Decode(token, secret, t)]
    /\ UNCHANGED <<stores, now, nextId, procs, issued, history>>

\* User::new(email, password, name)
UserNew_Call(password) ==
    /\ Ready
    /\ ret' = [op |-> "User::new", arg |-> [password |-> password],
               loc |-> EmptyLoc,
               res |-> UserNew(EmailNew(GoodEmail).val[1], password, GoodName,
                               nextId.user, now)]
    /\ UNCHANGED <<stores, now, nextId, procs, issued, history>>

\* user.change_password(new_password) on the user the last call returned
ChangePassword_Call(new_password) ==
    /\ ret.op \in {"User::new", "User::change_password"} /\ IsOk(ret.res)
    /\ ret' = [op |-> "User::change_password",
               arg |-> [user |-> ret.res.val[1],
                        new_password |-> new_password],
               loc |-> EmptyLoc,
               res |-> change_password(ret.res.val[1], new_password, now)]
    /\ UNCHANGED <<stores, now, nextId, procs, issued, history>>

\* session.verify_csrf(candidate) on a session whose CSRF token is own
VerifyCsrf_Call(own, candidate) ==
    /\ Ready
    /\ ret' = [op |-> "verify_csrf",
               arg |-> [own |-> own, candidate |-> candidate],
               loc |-> EmptyLoc,
               res |-> Ok(verify_csrf(
                   [SessionNew(nextId.user, SessionTtl, nextId.session, now)
                       EXCEPT !.csrf_token = own], candidate))]
    /\ UNCHANGED <<stores, now, nextId, procs, issued, history>>

\* error.into_response() in a build with or without debug_assertions
IntoResponse_Call(e, debug_assertions) ==
    /\ Ready
    /\ ret' = [op |-> "into_response",
               arg |-> [error |-> e, debug_assertions |-> debug_assertions],
               loc |-> EmptyLoc,
               res |-> Ok(IntoResponse(e, debug_assertions))]
    /\ UNCHANGED <<stores, now, nextId, procs, issued, history>>

\* ------------------------------------------------ failing statements
\* the statement an execution is suspended on fails: sqlx returns an error,
\* the repository maps it to an internal error and `?` returns it
\* TokenRepository::save: the INSERT fails
TokenSave_Fails(p) ==
    /\ Ready /\ pc[p] \in {"save_access", "save_refresh"}
    /\ Return(p, loc[p], internal("Failed to save token"))
    /\ UNCHANGED <<stores, now, nextId, issued, history>>

\* TokenRepository::revoke: the UPDATE fails
TokenRevoke_Fails(p) ==
    /\ Ready /\ pc[p] \in {"rt_revoke"}
    /\ Return(p, loc[p], internal("Failed to revoke token"))
    /\ UNCHANGED <<stores, now, nextId, issued, history>>

\* SessionRepository::delete_by_user_id: the DELETE fails, in login_web
\* itself or as the first statement of save
SessionDeleteByUserId_Fails(p) ==
    /\ Ready /\ pc[p] \in {"lw_delete", "lw_save_delete"}
    /\ Return(p, loc[p], internal("Failed to delete sessions"))
    /\ UNCHANGED <<stores, now, nextId, issued, history>>

\* SessionRepository::save: the INSERT fails
SessionSave_Fails(p) ==
    /\ Ready /\ pc[p] \in {"lw_save_insert"}
    /\ Return(p, loc[p], internal("Failed to save session"))
    /\ UNCHANGED <<stores, now, nextId, issued, history>>

\* the caller goes away while RefreshToken is suspended: the future is
\* dropped at its await point and produces no outcome
Refresh_Cancel(p) ==
    /\ Ready /\ op[p] = "refresh"
    /\ pc[p] \in {"rt_revoke", "save_access", "save_refresh"}
    /\ Return(p, loc[p], NoResult)
    /\ UNCHANGED <<stores, now, nextId, issued, history>>

\* ------------------------------------------------- clean-up jobs, clock
TokenCleanup ==
    /\ Ready
    /\ tokens' = TokenDeleteExpired(tokens, now)
    /\ tokens' # tokens
    /\ ret' = NoRet
    /\ UNCHANGED <<users, sessions, now, nextId, procs, issued, history>>

\* cleanup_expired_tokens: DELETE FROM jwt_tokens WHERE expires_at < NOW(),
\* Ok(rows_affected)
CleanupExpiredTokens ==
    /\ Ready
    /\ tokens' = TokenDeleteExpired(tokens, now)
    /\ ret' = [op |-> "cleanup_expired_tokens", arg |-> NoArg, loc |-> EmptyLoc,
               res |-> Ok(Cardinality(tokens) - Cardinality(tokens'))]
    /\ UNCHANGED <<users, sessions, now, nextId, procs, issued, history>>

SessionCleanup ==
    /\ Ready
    /\ sessions' = SessionDeleteExpired(sessions, now)
    /\ sessions' # sessions
    /\ ret' = NoRet
    /\ UNCHANGED <<users, tokens, now, nextId, procs, issued, history>>

Tick ==
    /\ Ready
    /\ now < MaxTime
    /\ now' = now + 1
    /\ ret' = NoRet
    /\ UNCHANGED <<stores, nextId, procs, issued, history>>

\* ------------------------------------------------------ specification
RegisterCommand(e, pw, n) == [email |-> e, password |-> pw, name |-> n]
RegisterCommands ==
    { RegisterCommand(GoodEmail, GoodPassword, GoodName),
      RegisterCommand(CaseEmail, GoodPassword, GoodName),
      RegisterCommand(PaddedEmail, GoodPassword, GoodName),
      RegisterCommand(OtherEmail, GoodPassword, GoodName),
      RegisterCommand(BadEmail, GoodPassword, GoodName),
      RegisterCommand(GoodEmail, ShortPassword, GoodName),
      RegisterCommand(GoodEmail, GoodPassword, BlankName) }
LoginCommand(e, pw) == [email |-> e, password |-> pw]
LoginCommands ==
    { LoginCommand(GoodEmail, GoodPassword),
      LoginCommand(GoodEmail, WrongPassword),
      LoginCommand(OtherEmail, GoodPassword),
      LoginCommand(BadEmail, GoodPassword) }
Forge(token) == Encode(token.claims, AttackerSecret)
OfType(S, type) == {x \in S : x.claims.token_type = type}
Oldest(S) == {x \in S : \A y \in S : ArgJti(x) <= ArgJti(y)}
\* what clients send to /refresh: any refresh token they were given, the
\* oldest access token, a forgery of the oldest refresh token, and noise
PresentableTokens ==
    OfType(issued, "refresh") \cup Oldest(OfType(issued, "access"))
        \cup {Forge(t) : t \in Oldest(OfType(issued, "refresh"))}
        \cup {Garbage}
UserIds == {u.id : u \in users}
SessionIds == {s.id : s \in sessions} \cup {0}

Next ==
    \/ \E p \in Procs, cmd \in RegisterCommands : Register_Find(p, cmd)
    \/ \E p \in Procs : Register_Save(p)
    \/ \E p \in Procs, cmd \in LoginCommands : LoginWeb_Find(p, cmd)
    \/ \E p \in Procs : LoginWeb_Delete(p)
    \/ \E p \in Procs : LoginWeb_SaveDelete(p)
    \/ \E p \in Procs : LoginWeb_SaveInsert(p)
    \/ \E p \in Procs, cmd \in LoginCommands : LoginApi_Find(p, cmd)
    \/ \E p \in Procs : LoginApi_SaveAccess(p)
    \/ \E p \in Procs : LoginApi_SaveRefresh(p)
    \/ \E p \in Procs, t \in PresentableTokens : Refresh_Find(p, t)
    \/ \E p \in Procs : Refresh_Revoke(p)
    \/ \E p \in Procs : Refresh_SaveAccess(p)
    \/ \E p \in Procs : Refresh_SaveRefresh(p)
    \/ \E p \in Procs, id \in SessionIds : Logout_Web(p, id)
    \/ \E p \in Procs, u \in UserIds : Logout_Api(p, u)
    \/ \E p \in Procs, u \in UserIds : LogoutAll_Start(p, u)
    \/ \E p \in Procs : LogoutAll_Revoke(p)
    \/ Respond
    \/ TokenCleanup
    \/ SessionCleanup
    \/ Tick

Spec == Init /\ [][Next]_vars

\* The session use cases and the token use cases share the users table and
\* the clock and nothing else, so each half is explored on its own.
ApiRegisterCommands == {RegisterCommand(GoodEmail, GoodPassword, GoodName)}
ApiLoginCommands ==
    { LoginCommand(GoodEmail, GoodPassword),
      LoginCommand(GoodEmail, WrongPassword) }

NextWeb ==
    \/ \E p \in Procs, cmd \in RegisterCommands : Register_Find(p, cmd)
    \/ \E p \in Procs : Register_Save(p)
    \/ \E p \in Procs, cmd \in LoginCommands : LoginWeb_Find(p, cmd)
    \/ \E p \in Procs : LoginWeb_Delete(p)
    \/ \E p \in Procs : LoginWeb_SaveDelete(p)
    \/ \E p \in Procs : LoginWeb_SaveInsert(p)
    \/ \E p \in Procs, id \in SessionIds : Logout_Web(p, id)
    \/ Respond
    \/ SessionCleanup
    \/ Tick

SpecWeb == Init /\ [][NextWeb]_vars

NextApi ==
    \/ \E p \in Procs, cmd \in ApiRegisterCommands : Register_Find(p, cmd)
    \/ \E p \in Procs : Register_Save(p)
    \/ \E p \in Procs, cmd \in ApiLoginCommands : LoginApi_Find(p, cmd)
    \/ \E p \in Procs : LoginApi_SaveAccess(p)
    \/ \E p \in Procs : LoginApi_SaveRefresh(p)
    \/ \E p \in Procs, t \in PresentableTokens : Refresh_Find(p, t)
    \/ \E p \in Procs : Refresh_Revoke(p)
    \/ \E p \in Procs : Refresh_SaveAccess(p)
    \/ \E p \in Procs : Refresh_SaveRefresh(p)
    \/ \E p \in Procs, u \in UserIds : Logout_Api(p, u)
    \/ \E p \in Procs, u \in UserIds : LogoutAll_Start(p, u)
    \/ \E p \in Procs : LogoutAll_Revoke(p)
    \/ Respond
    \/ TokenCleanup
    \/ Tick

SpecApi == Init /\ [][NextApi]_vars

\* registration with both kinds of login
NextLogin ==
    \/ \E p \in Procs, cmd \in ApiRegisterCommands : Register_Find(p, cmd)
    \/ \E p \in Procs : Register_Save(p)
    \/ \E p \in Procs, cmd \in LoginCommands : LoginWeb_Find(p, cmd)
    \/ \E p \in Procs : LoginWeb_Delete(p)
    \/ \E p \in Procs : LoginWeb_SaveDelete(p)
    \/ \E p \in Procs : LoginWeb_SaveInsert(p)
    \/ \E p \in Procs, cmd \in LoginCommands : LoginApi_Find(p, cmd)
    \/ \E p \in Procs : LoginApi_SaveAccess(p)
    \/ \E p \in Procs : LoginApi_SaveRefresh(p)
    \/ Respond

SpecLogin == Init /\ [][NextLogin]_vars

\* one request at a time
Solo == {1}

\* registration and both kinds of login, one request at a time, while
\* accounts are switched off and on again
NextAccount ==
    \/ \E p \in Solo, cmd \in ApiRegisterCommands : Register_Find(p, cmd)
    \/ \E p \in Solo : Register_Save(p)
    \/ \E p \in Solo, cmd \in ApiLoginCommands : LoginWeb_Find(p, cmd)
    \/ \E p \in Solo : LoginWeb_Delete(p)
    \/ \E p \in Solo : LoginWeb_SaveDelete(p)
    \/ \E p \in Solo : LoginWeb_SaveInsert(p)
    \/ \E p \in Solo, cmd \in ApiLoginCommands : LoginApi_Find(p, cmd)
    \/ \E p \in Solo : LoginApi_SaveAccess(p)
    \/ \E p \in Solo : LoginApi_SaveRefresh(p)
    \/ \E u \in UserIds : Deactivate(u)
    \/ \E u \in UserIds : Reactivate(u)
    \/ Respond
    \/ Tick

SpecAccount == Init /\ [][NextAccount]_vars

\* API registration, both logins and RefreshToken, one request at a time,
\* on a database whose statements can fail and with callers that can go away
NextFault ==
    \/ \E p \in Solo, cmd \in ApiRegisterCommands : RegisterApi_Find(p, cmd)
    \/ \E p \in Solo : RegisterApi_Save(p)
    \/ \E p \in Solo : RegisterApi_SaveAccess(p)
    \/ \E p \in Solo : RegisterApi_SaveRefresh(p)
    \/ \E p \in Solo, cmd \in ApiLoginCommands : LoginWeb_Find(p, cmd)
    \/ \E p \in Solo : LoginWeb_Delete(p)
    \/ \E p \in Solo : LoginWeb_SaveDelete(p)
    \/ \E p \in Solo : LoginWeb_SaveInsert(p)
    \/ \E p \in Solo, cmd \in ApiLoginCommands : LoginApi_Find(p, cmd)
    \/ \E p \in Solo : LoginApi_SaveAccess(p)
    \/ \E p \in Solo : LoginApi_SaveRefresh(p)
    \/ \E p \in Solo, token \in PresentableTokens : Refresh_Find(p, token)
    \/ \E p \in Solo : Refresh_Revoke(p)
    \/ \E p \in Solo : Refresh_SaveAccess(p)
    \/ \E p \in Solo : Refresh_SaveRefresh(p)
    \/ \E p \in Solo : TokenSave_Fails(p)
    \/ \E p \in Solo : TokenRevoke_Fails(p)
    \/ \E p \in Solo : SessionDeleteByUserId_Fails(p)
    \/ \E p \in Solo : SessionSave_Fails(p)
    \/ \E p \in Solo : Refresh_Cancel(p)
    \/ Respond

SpecFault == Init /\ [][NextFault]_vars

\* session ids a client can send: any id ever given out, and one never given
AnySessionIds == 0..MaxSessions

\* logins and logouts of one account on both surfaces, two at a time
NextLogout ==
    \/ \E p \in Procs, cmd \in ApiRegisterCommands : Register_Find(p, cmd)
    \/ \E p \in Procs : Register_Save(p)
    \/ \E p \in Procs, cmd \in ApiLoginCommands : LoginWeb_Find(p, cmd)
    \/ \E p \in Procs : LoginWeb_Delete(p)
    \/ \E p \in Procs : LoginWeb_SaveDelete(p)
    \/ \E p \in Procs : LoginWeb_SaveInsert(p)
    \/ \E p \in Procs, cmd \in ApiLoginCommands : LoginApi_Find(p, cmd)
    \/ \E p \in Procs : LoginApi_SaveAccess(p)
    \/ \E p \in Procs : LoginApi_SaveRefresh(p)
    \/ \E p \in Procs, id \in AnySessionIds : Logout_Web(p, id)
    \/ \E p \in Procs, u \in UserIds : LogoutAll_Start(p, u)
    \/ \E p \in Procs : LogoutAll_Revoke(p)
    \/ Respond

SpecLogout == Init /\ [][NextLogout]_vars

\* what clients send as bearer tokens: any token they were given, a
\* forgery of the oldest access token, and noise
BearerTokens ==
    issued \cup {Forge(t) : t \in Oldest(OfType(issued, "access"))}
           \cup {Garbage}
Headers == {NoHeader, Basic} \cup {Bearer(t) : t \in BearerTokens}

\* the JSON API, one request at a time: registration, refresh, the
\* protected user routes and logout, while the clock runs
NextHttp ==
    \/ \E p \in Solo, cmd \in ApiRegisterCommands : RegisterApi_Find(p, cmd)
    \/ \E p \in Solo : RegisterApi_Save(p)
    \/ \E p \in Solo : RegisterApi_SaveAccess(p)
    \/ \E p \in Solo : RegisterApi_SaveRefresh(p)
    \/ \E p \in Solo, token \in PresentableTokens : Refresh_Find(p, token)
    \/ \E p \in Solo : Refresh_Revoke(p)
    \/ \E p \in Solo : Refresh_SaveAccess(p)
    \/ \E p \in Solo : Refresh_SaveRefresh(p)
    \/ \E p \in Solo, r \in UserRoutes, h \in Headers : UserApi(p, r, h)
    \/ \E p \in Solo, h \in Headers : Api_Logout(p, h)
    \/ \E p \in Solo, u \in UserIds : Logout_Api(p, u)
    \/ Respond
    \/ TokenCleanup
    \/ Tick

SpecHttp == Init /\ [][NextHttp]_vars

\* the domain's pure operations, called on every input of the sets above
NextDomain ==
    \/ \E u \in 1..MaxUsers, s \in Secrets, a \in Ttls, r \in Ttls, t \in Clock :
          Generate_Call(u, s, a, r, t)
    \/ \E type \in {"access", "refresh"}, s \in Secrets, t \in Clock :
          Decode_Call(type, s, t)
    \/ \E pw \in Passwords : UserNew_Call(pw)
    \/ \E pw \in Passwords : ChangePassword_Call(pw)
    \/ \E own \in CsrfStrings, c \in CsrfStrings : VerifyCsrf_Call(own, c)
    \/ \E e \in Errors, d \in BOOLEAN : IntoResponse_Call(e, d)
    \/ Respond

SpecDomain == Init /\ [][NextDomain]_vars

\* names clients send: a plain one, a padded one, a blank one, the empty
\* one and one of NameMaxLen + 1 characters
PaddedName == <<" ", "B", " ">>
LongName == [i \in 1..(NameMaxLen + 1) |-> "n"]
Names == {GoodName, PaddedName, BlankName, <<>>, LongName}
UserRegisterCommands ==
    {RegisterCommand(GoodEmail, GoodPassword, n) : n \in Names}
ChangePasswordCommands ==
    {ChangePasswordCommand(c, n, k) :
        c \in {GoodPassword, NewPassword},
        n \in {NewPassword, GoodPassword, ShortPassword},
        k \in {NewPassword, GoodPassword, ShortPassword}}
\* user ids a caller can name: those of the users, and one nobody has
AnyUserIds == 1..MaxUsers

\* registration, the user module's use cases and User::update_name; the
\* use cases run two at a time
NextUser ==
    \/ \E p \in Procs, cmd \in UserRegisterCommands : Register_Find(p, cmd)
    \/ \E p \in Procs : Register_Save(p)
    \/ \E p \in Procs, u \in AnyUserIds, cmd \in ChangePasswordCommands :
          ChangePassword_Find(p, u, cmd)
    \/ \E p \in Procs : ChangePassword_Update(p)
    \/ \E p \in Procs, u \in AnyUserIds, n \in Names :
          UpdateProfile_Find(p, u, UpdateProfileCommand(n))
    \/ \E p \in Procs : UpdateProfile_Update(p)
    \/ \E u \in UserIds, n \in Names : UpdateName(u, n)
    \/ Respond

SpecUser == Init /\ [][NextUser]_vars

\* two accounts: each registers through the API and gets its first pair
TenantRegisterCommands ==
    {RegisterCommand(e, GoodPassword, GoodName) : e \in {GoodEmail, OtherEmail}}

\* two accounts side by side: registration, both logins, RefreshToken, the
\* logout use cases and deactivation, two executions at a time
NextTenants ==
    \/ \E p \in Solo, cmd \in TenantRegisterCommands : RegisterApi_Find(p, cmd)
    \/ \E p \in Solo : RegisterApi_Save(p)
    \/ \E p \in Solo : RegisterApi_SaveAccess(p)
    \/ \E p \in Solo : RegisterApi_SaveRefresh(p)
    \/ \E p \in Solo, cmd \in LoginCommands : LoginWeb_Find(p, cmd)
    \/ \E p \in Solo : LoginWeb_Delete(p)
    \/ \E p \in Solo : LoginWeb_SaveDelete(p)
    \/ \E p \in Solo : LoginWeb_SaveInsert(p)
    \/ \E p \in Solo, cmd \in LoginCommands : LoginApi_Find(p, cmd)
    \/ \E p \in Solo : LoginApi_SaveAccess(p)
    \/ \E p \in Solo : LoginApi_SaveRefresh(p)
    \/ \E p \in Solo, token \in PresentableTokens : Refresh_Find(p, token)
    \/ \E p \in Solo : Refresh_Revoke(p)
    \/ \E p \in Solo : Refresh_SaveAccess(p)
    \/ \E p \in Solo : Refresh_SaveRefresh(p)
    \/ \E p \in Solo, u \in UserIds : Logout_Api(p, u)
    \/ \E p \in Solo, u \in UserIds : LogoutAll_Start(p, u)
    \/ \E p \in Solo : LogoutAll_Revoke(p)
    \/ \E u \in UserIds : Deactivate(u)
    \/ Respond

SpecTenants == Init /\ [][NextTenants]_vars

\* the life of token records, one request at a time: API registration and
\* login, RefreshToken, both logouts and the clean-up job, while the clock
\* runs
NextStore ==
    \/ \E p \in Solo, cmd \in ApiRegisterCommands : RegisterApi_Find(p, cmd)
    \/ \E p \in Solo : RegisterApi_Save(p)
    \/ \E p \in Solo : RegisterApi_SaveAccess(p)
    \/ \E p \in Solo : RegisterApi_SaveRefresh(p)
    \/ \E p \in Solo, cmd \in ApiLoginCommands : LoginApi_Find(p, cmd)
    \/ \E p \in Solo : LoginApi_SaveAccess(p)
    \/ \E p \in Solo : LoginApi_SaveRefresh(p)
    \/ \E p \in Solo, token \in PresentableTokens : Refresh_Find(p, token)
    \/ \E p \in Solo : Refresh_Revoke(p)
    \/ \E p \in Solo : Refresh_SaveAccess(p)
    \/ \E p \in Solo : Refresh_SaveRefresh(p)
    \/ \E p \in Solo, u \in UserIds : Logout_Api(p, u)
    \/ \E p \in Solo, u \in UserIds : LogoutAll_Start(p, u)
    \/ \E p \in Solo : LogoutAll_Revoke(p)
    \/ CleanupExpiredTokens
    \/ Respond
    \/ Tick

SpecStore == Init /\ [][NextStore]_vars

\* registrations with every mix of a good, malformed or padded e-mail, a
\* good or short password and a good, empty or blank name
MixedRegisterCommands ==
    {RegisterCommand(e, pw, n) :
        e \in {GoodEmail, BadEmail, PaddedEmail},
        pw \in {GoodPassword, ShortPassword},
        n \in {GoodName, <<>>, BlankName}}

\* RegisterUser alone, two executions at a time
NextRegister ==
    \/ \E p \in Procs, cmd \in MixedRegisterCommands : Register_Find(p, cmd)
    \/ \E p \in Procs : Register_Save(p)
    \/ Respond
    \/ Tick

SpecRegister == Init /\ [][NextRegister]_vars

PasswordCommands ==
    {ChangePasswordCommand(GoodPassword, NewPassword, NewPassword),
     ChangePasswordCommand(WrongPassword, NewPassword, NewPassword)}

\* an account with a session and a token pair changes its password while
\* its profile is edited, two executions at a time
NextPassword ==
    \/ \E p \in Procs, cmd \in ApiRegisterCommands : Register_Find(p, cmd)
    \/ \E p \in Procs : Register_Save(p)
    \/ \E p \in Procs, cmd \in ApiLoginCommands : LoginWeb_Find(p, cmd)
    \/ \E p \in Procs : LoginWeb_Delete(p)
    \/ \E p \in Procs : LoginWeb_SaveDelete(p)
    \/ \E p \in Procs : LoginWeb_SaveInsert(p)
    \/ \E p \in Procs, cmd \in ApiLoginCommands : LoginApi_Find(p, cmd)
    \/ \E p \in Procs : LoginApi_SaveAccess(p)
    \/ \E p \in Procs : LoginApi_SaveRefresh(p)
    \/ \E p \in Procs, u \in UserIds, cmd \in PasswordCommands :
          ChangePassword_Find(p, u, cmd)
    \/ \E p \in Procs : ChangePassword_Update(p)
    \/ \E p \in Procs, u \in UserIds :
          UpdateProfile_Find(p, u, UpdateProfileCommand(PaddedName))
    \/ \E p \in Procs : UpdateProfile_Update(p)
    \/ Respond

SpecPassword == Init /\ [][NextPassword]_vars

\* ------------------------------------------------------------ properties
\* the response is that of a RefreshToken execution
Refreshed == ret.op = "refresh"

\* the records the store holds for the token of the response
RetRecords == {r \in tokens : r.jti = ArgJti(ret.arg)}

\* C1 as stated: every RefreshToken execution that presents a token an
\* earlier execution returned a new pair for fails with AuthenticationError
\* "Token has been revoked".
C1_ReplayAlwaysRevoked ==
    Refreshed /\ ret.loc.prior
        => ret.res = authentication("Token has been revoked")

\* C1, amended: a successful RefreshToken execution leaves the record of its
\* token revoked, and every later execution presenting that token fails with
\* an AuthenticationError and returns no pair; the message is "Token has been
\* revoked" whenever the execution found the token's record, and "Token not
\* found" or "Token has expired" when the record was cleaned up or the JWT
\* itself had expired.
C1_ReplayFails ==
    /\ Refreshed /\ IsOk(ret.res) => \A r \in RetRecords : r.revoked
    /\ Refreshed /\ ret.loc.prior =>
          /\ ret.res.kind = "Authentication"
          /\ ret.res.val = <<>>
          /\ ret.loc.stored # {}
                => ret.res = authentication("Token has been revoked")
          /\ ret.loc.stored = {}
                => ret.res.msg \in {"Token not found", "Token has expired"}

C1_Witness ==
    /\ Refreshed /\ ret.loc.prior
    /\ ret.res = authentication("Token has been revoked")
    /\ \E r \in RetRecords : r.revoked

\* C2: of the RefreshToken executions that present the same refresh token,
\* at most one returns a new pair: no execution returns a pair for a token
\* that another execution has already returned a pair for.
C2_UsedAtMostOnce == ~(Refreshed /\ IsOk(ret.res) /\ ret.loc.again)

\* C7: a record that has revoked = true has it after every step, for as
\* long as a record with its jti exists.
C7_RevocationMonotonic ==
    [][\A r \in tokens : r.revoked =>
          \A r2 \in tokens' : r2.jti = r.jti => r2.revoked]_vars

\* a revoked record went through a second revoke_all_user_tokens untouched
C7_Witness ==
    /\ ret.op = "logout_api"
    /\ \E r \in tokens : /\ r.user_id = ret.arg.user_id
                          /\ r.revoked /\ r.revoked_at = <<0>>
    /\ now = 1

\* C8: every record that existed for u when revoke_all_user_tokens(u) ran
\* fails is_valid from then on, and a RefreshToken execution that presents
\* one of those tokens afterwards fails.
C8_RevokedForGood ==
    /\ \A r \in tokens : r.jti \in loggedOut => ~is_valid(r, now)
    /\ Refreshed /\ ret.loc.lo0 => ~IsOk(ret.res)

C8_Witness ==
    /\ Refreshed /\ ret.loc.lo0 /\ ~ret.loc.prior
    /\ ret.res = authentication("Token has been revoked")
    /\ \E r \in tokens : r.jti \in loggedOut /\ r.token_type = "access"
                          /\ ~is_expired(r, now)

\* C9: once logout_api(u) has returned, with no login or registration for u
\* started since, no token record of u is valid.
C9_NoValidTokenAfterLogout ==
    \A u \in quiet : \A r \in tokens : r.user_id = u => ~is_valid(r, now)

\* C3: the session store holds at most one session per user.
C3_AtMostOneSession ==
    \A u \in users : Cardinality({s \in sessions : s.user_id = u.id}) <= 1

\* the response is that of a login_web execution that succeeded
LoggedInWeb == ret.op = "login_web" /\ IsOk(ret.res)

\* C4: when a login_web execution that no other execution overlapped
\* returns Ok, the sessions of its user are exactly the session it created,
\* and find_by_user_id returns that session.
C4_LoginAloneOneSession ==
    LoggedInWeb /\ ret.loc.alone =>
        LET new == ret.res.val[1].session
        IN  /\ {s \in sessions : s.user_id = new.user_id} = {new}
            /\ SessionFindByUserId(sessions, new.user_id) = {new}

\* the login found two sessions of its user in the store
C4_Witness == LoggedInWeb /\ ret.loc.alone /\ ret.loc.before >= 2

\* the response is that of a RegisterUser execution
Registered == ret.op = "register"

\* the address an e-mail input stands for: trimmed, lower-cased
Normalized(raw) == ToLowercase(Trim(raw))

\* the command has a password and a name RegisterUser accepts
RestValid(cmd) == Len(cmd.password) >= 8 /\ Trim(cmd.name) # <<>>

\* C5 as stated: a RegisterUser, valid but for its e-mail being taken, that
\* starts when a user with the same normalized e-mail exists fails with
\* Conflict.
C5_LaterAlwaysConflict ==
    Registered /\ ret.loc.prior /\ RestValid(ret.arg)
        => ret.res.kind = "Conflict"

\* C5, amended: a RegisterUser that returns Ok has persisted a user with the
\* normalized e-mail, email_verified = false and is_active = true; one that
\* starts when a user with the same normalized e-mail exists creates no
\* user, and fails with Conflict when its e-mail as typed passes the
\* command's e-mail check, with ValidationError when it does not (an e-mail
\* with white space around it); a valid one that starts when no such user
\* exists succeeds unless a concurrent registration wins the e-mail.
C5_RegisterOnce ==
    Registered =>
        /\ IsOk(ret.res) =>
              \E u \in users :
                  /\ u.id = ret.res.val[1].id
                  /\ u.email = Normalized(ret.arg.email)
                  /\ u.email_verified = FALSE /\ u.is_active = TRUE
                  /\ ret.res.val[1] = UserDtoFrom(u)
        /\ ret.loc.prior =>
              /\ ~IsOk(ret.res)
              /\ Cardinality({u \in users :
                                 u.email = Normalized(ret.arg.email)}) = 1
        /\ ret.loc.prior /\ RestValid(ret.arg) =>
              IF ValidateEmail(ret.arg.email)
              THEN ret.res = conflict("Email already exists")
              ELSE ret.res.kind = "Validation"
        /\ ~ret.loc.prior /\ RestValid(ret.arg) /\ ValidateEmail(ret.arg.email)
              => IsOk(ret.res) \/ ret.res = conflict("Email already exists")

\* a later registration that differs from the first in letter case only
C5_Witness ==
    /\ Registered /\ ret.loc.prior
    /\ ret.arg.email = CaseEmail
    /\ ret.res = conflict("Email already exists")

\* C6: no two persisted users have the same e-mail, and a RegisterUser that
\* got as far as saving its user and failed returns Conflict.
C6_OneUserPerEmail ==
    /\ \A u1, u2 \in users : u1.email = u2.email => u1 = u2
    /\ Registered /\ ret.loc.user # {} /\ ~IsOk(ret.res)
          => ret.res = conflict("Email already exists")

\* a registration that found the e-mail free and lost it before its save
C6_Witness ==
    /\ Registered /\ ~ret.loc.prior /\ ret.loc.user # {}
    /\ ret.res = conflict("Email already exists")
    /\ \E u \in users : u.email = Normalized(ret.arg.email)

\* the response is that of a login with a well-formed e-mail
LoginTried ==
    /\ ret.op \in {"login_web", "login_api"}
    /\ ValidateEmail(Normalized(ret.arg.email))

\* the login's e-mail is that of no user
UnknownEmail == \A u \in users : u.email # Normalized(ret.arg.email)

\* the login's e-mail is that of a user with another password
WrongPasswordGiven ==
    \E u \in users : /\ u.email = Normalized(ret.arg.email)
                      /\ u.password_hash.of # ret.arg.password

\* C10: login_web and login_api answer an unknown e-mail and a wrong
\* password with the same error, AuthenticationError "Invalid email or
\* password".
C10_SameLoginError ==
    LoginTried /\ (UnknownEmail \/ WrongPasswordGiven)
        => ret.res = authentication("Invalid email or password")

\* an API login with an e-mail nobody registered, while a user exists
C10_Witness ==
    /\ LoginTried /\ ret.op = "login_api"
    /\ users # {} /\ UnknownEmail
    /\ ret.res = authentication("Invalid email or password")

\* the response is that of a login whose e-mail and password were those of
\* the account the execution read
RightCredentials ==
    /\ ret.op \in {"login_web", "login_api"}
    /\ \E u \in ret.loc.user : u.password_hash.of = ret.arg.password

\* C11: a login with the right password for an account that is not active
\* fails with AuthenticationError "Account is not active" and has made no
\* session and no token; for an active account, also one that has been
\* deactivated and reactivated, it succeeds.
C11_InactiveRejected ==
    RightCredentials =>
        \A u \in ret.loc.user :
            /\ ~u.is_active =>
                  /\ ret.res = authentication("Account is not active")
                  /\ ret.loc.session = {} /\ ret.loc.gen = {}
            /\ u.is_active => IsOk(ret.res)

\* a login that succeeds after the account was switched off and on again
C11_Witness ==
    /\ RightCredentials /\ IsOk(ret.res)
    /\ \E u \in ret.loc.user : u.is_active /\ u.updated_at > u.created_at

\* the records of a pair are both in the token store
Persisted(g) == g.access \in tokens /\ g.refresh \in tokens

\* the execution ended by returning an error to its caller
Failed == ~IsOk(ret.res) /\ ret.res # NoResult

\* C12: a RefreshToken execution that returns an error, whatever the reason,
\* leaves the token store as it was before the call: the record of the
\* presented token is as it was found and no record of a new pair is stored.
C12_RefreshAllOrNothing ==
    (Refreshed /\ Failed) =>
        /\ ret.loc.stored \subseteq tokens
        /\ \A g \in ret.loc.gen : g.access \notin tokens /\ g.refresh \notin tokens

\* C13: when a login_api, RefreshToken or API registration execution has
\* ended, with success or with an error, the token store holds both records
\* of the pair it minted or neither of them.
C13_RecordsInPairs ==
    (ret.op \in {"login_api", "refresh", "register_api"} /\ ret.res # NoResult) =>
        \A g \in ret.loc.gen : g.access \in tokens <=> g.refresh \in tokens

\* C14: a login_web execution that returns an error leaves the session the
\* user had before the call in the store.
C14_LoginWebAllOrNothing ==
    (ret.op = "login_web" /\ Failed /\ ret.loc.before > 0) =>
        \E s \in sessions, u \in ret.loc.user : s.user_id = u.id

\* C15: a RefreshToken execution that revoked the presented token and did
\* not persist the whole new pair ends with an error for its caller, never
\* with success and never without an outcome, and the presented token
\* stays revoked.
C15_PartialRefreshReportsError ==
    (Refreshed /\ \E g \in ret.loc.gen : ~Persisted(g)) =>
        /\ ret.res.kind \notin {"Ok", "None"}
        /\ \A r \in tokens : r.jti = ArgJti(ret.arg) => r.revoked

\* every stored record of the token with this jti is revoked
RevokedInStore(jti) == \A r \in tokens : r.jti = jti => r.revoked

\* C16: RefreshToken revokes before it mints: whenever an execution is about
\* to persist a record of its new pair, or has just persisted one, the
\* record of the token it was presented is already revoked.
C16_RevokeThenMint ==
    /\ \A p \in Procs :
          (op[p] = "refresh" /\ pc[p] \in {"save_access", "save_refresh"}) =>
              RevokedInStore(ArgJti(arg[p]))
    /\ (Refreshed /\ \E g \in ret.loc.gen : g.refresh \in tokens) =>
          RevokedInStore(ArgJti(ret.arg))

\* an execution has persisted its access record and is about to persist its
\* refresh record while the record of the presented token is stored
C16_Witness ==
    \E p \in Procs :
        /\ op[p] = "refresh" /\ pc[p] = "save_refresh"
        /\ \E g \in loc[p].gen : g.access \in tokens
        /\ \E r \in tokens : r.jti = ArgJti(arg[p]) /\ r.revoked

\* the token is a JWT signed by the server
WellSigned(token) ==
    token.form = "jwt" /\ token.sig = Sign(token.claims, JwtSecret)

\* the token is a refresh token of the server
RefreshTyped(token) == WellSigned(token) /\ token.claims.token_type = "refresh"

\* the stored records of the token's jti
RecordsOf(token) == {r \in tokens : r.jti = ArgJti(token)}

\* the token must be refused: malformed, forged, of another type, without
\* a record, or with a revoked or an expired record
Refusable(token) ==
    \/ ~RefreshTyped(token)
    \/ RecordsOf(token) = {}
    \/ \E r \in RecordsOf(token) : r.revoked \/ is_expired(r, now)

\* the token passes TokenPair::decode and the type check
Decodes(token) == RefreshTyped(token) /\ token.claims.exp >= now - Leeway

\* C17: a RefreshToken execution presented a token that is malformed, badly
\* signed, not of type "refresh", without a record, or with a revoked or an
\* expired record returns an AuthenticationError and leaves the token store
\* unchanged; for a token that decodes the message is "Token not found",
\* "Token has been revoked" or "Token has expired"; only a token with none
\* of these defects goes on to the revoke.
C17_BadTokenRefused ==
    [][/\ (ret' # ret /\ ret'.op = "refresh" /\ pc' = pc
             /\ Refusable(ret'.arg)) =>
            /\ ret'.res.kind = "Authentication"
            /\ tokens' = tokens
            /\ Decodes(ret'.arg) =>
                  ret'.res.msg =
                      IF RecordsOf(ret'.arg) = {} THEN "Token not found"
                      ELSE IF \E r \in RecordsOf(ret'.arg) : r.revoked
                           THEN "Token has been revoked"
                      ELSE "Token has expired"
       /\ \A p \in Procs :
            (pc[p] = "idle" /\ pc'[p] = "rt_revoke") => ~Refusable(arg'[p])
      ]_vars

\* a refresh token whose record is stored, not revoked and expired was
\* refused
C17_Witness ==
    /\ Refreshed /\ ret.res = authentication("Token has expired")
    /\ \E r \in ret.loc.stored : ~r.revoked /\ r \in tokens

\* C18: logout_web is idempotent: it returns success, and for a session id
\* that is not in the store (never given out, or deleted before) it leaves
\* the session store unchanged, so a second logout_web(id) changes nothing.
C18_LogoutWebIdempotent ==
    [][(ret' # ret /\ ret'.op = "logout_web") =>
          LET id == ret'.arg.session_id
          IN  /\ ret'.res = Ok("unit")
              /\ (\A s \in sessions : s.id # id) => sessions' = sessions
              /\ \A s \in sessions' : s.id # id
              /\ \A s \in sessions : s.id # id => s \in sessions'
      ]_vars

\* logout_web returned for an id that was given out and is no longer in
\* the store, while another session is
C18_Witness ==
    /\ ret.op = "logout_web" /\ IsOk(ret.res)
    /\ ret.arg.session_id \in 1..(nextId.session - 1)
    /\ \A s \in sessions : s.id # ret.arg.session_id
    /\ sessions # {}

\* logout_all returned success
LoggedOutAll == ret.op = "logout_all" /\ IsOk(ret.res)

\* the user has no session and no token record that is not revoked
NothingLeft(user_id) ==
    /\ \A s \in sessions : s.user_id # user_id
    /\ \A r \in tokens : r.user_id = user_id => r.revoked

C20_RevokeIdempotent ==
    [][\A p \in Procs :
          (op[p] = "refresh" /\ pc[p] = "rt_revoke" /\ pc'[p] # pc[p]
             /\ RevokedInStore(ArgJti(arg[p]))) =>
              /\ tokens' = tokens
              /\ pc'[p] = "save_access"
      ]_vars

\* revoke has run for a jti whose record had been revoked at an earlier time
C20_Witness ==
    \E p \in Procs :
        /\ op[p] = "refresh" /\ pc[p] = "save_access"
        /\ \E r \in tokens, g \in loc[p].gen :
              /\ r.jti = ArgJti(arg[p]) /\ r.revoked
              /\ r.revoked_at # <<>> /\ r.revoked_at[1] < g.access.created_at

\* a request to a JWT-protected route has been answered
UserApiAnswered == ret.op \in UserRoutes

\* the request carried this bearer token
Carried(token) == ret.arg = Bearer(token)

\* C21: jwt_auth_middleware runs the protected handler only for a bearer
\* token that is valid when it is checked: signed by the server, with a
\* stored record for its jti that is neither revoked nor expired; every
\* other request gets an authentication error and the handler is not run.
C21_ForwardsOnlyValid ==
    UserApiAnswered =>
        /\ ret.loc.forwarded =>
              /\ ret.arg.scheme = "Bearer" /\ WellSigned(ret.arg.token)
              /\ \E r \in RecordsOf(ret.arg.token) : is_valid(r, now)
        /\ ~ret.loc.forwarded => ret.res.kind = "Authentication"

\* C22: when POST /api/auth/logout has answered 204 to a request carrying a
\* user's access token, every token record of that user is revoked.
C22_ApiLogoutRevokes ==
    (ret.op = "api_logout" /\ IsOk(ret.res) /\ ret.arg.scheme = "Bearer"
        /\ ret.arg.token \in OfType(issued, "access")) =>
        \A r \in tokens :
            r.user_id = UuidParseStr(ret.arg.token.claims.sub) => r.revoked

\* C23: a request to a JWT-protected user route that carries an access token
\* whose record is stored, not revoked and not expired is answered 200 with
\* the profile of the caller; the same request without a token is answered
\* 401.
C23_ProtectedRoutesServe ==
    UserApiAnswered =>
        /\ (/\ ret.arg.scheme = "Bearer"
            /\ ret.arg.token \in OfType(issued, "access")
            /\ \E r \in RecordsOf(ret.arg.token) : is_valid(r, now)) =>
              /\ IsOk(ret.res)
              /\ \E u \in users :
                    /\ u.id = UuidParseStr(ret.arg.token.claims.sub)
                    /\ ret.res.val[1] = [status |-> 200,
                                         body |-> UserProfileFrom(u)]
        /\ ret.arg = NoHeader => status_code(ret.res) = 401

\* the API registration ended with success
RegisteredApi == ret.op = "register_api" /\ IsOk(ret.res)

\* C24: a successful API registration has persisted the new user and, as
\* long as neither token of the pair has expired, one access and one refresh
\* token record of that user; the refresh token it returns then passes
\* every check of RefreshToken, which goes on to mint a new pair.
C24_RegistrationIssuesUsablePair ==
    RegisteredApi =>
        LET dto == ret.res.val[1].user
            pair == ret.res.val[1].token_pair
            mine == {r \in tokens : r.user_id = dto.id}
            jti == RefreshDecode(pair.refresh_token, now)
        IN  /\ \E u \in users : u.id = dto.id /\ UserDtoFrom(u) = dto
            /\ (/\ now <= pair.access_token.claims.exp
                /\ now <= pair.refresh_token.claims.exp) =>
                  /\ Cardinality({r \in mine : r.token_type = "access"}) = 1
                  /\ Cardinality({r \in mine : r.token_type = "refresh"}) = 1
                  /\ Cardinality(mine) = 2
                  /\ IsOk(jti)
                  /\ IsOk(RefreshCheckStored(TokenFindByJti(tokens, jti.val[1]),
                                             now))
                  /\ \A r \in TokenFindByJti(tokens, jti.val[1]) :
                        r.user_id = dto.id /\ r.token_type = "refresh"

\* RefreshToken returned a new pair for the refresh token of the registration
C24_Witness ==
    /\ Refreshed /\ IsOk(ret.res)
    /\ ret.arg \in Oldest(OfType(issued, "refresh"))
    /\ \A r \in ret.loc.stored : r.created_at = 0
    /\ ret.res.val[1].refresh_token # ret.arg

ChangePasswordReturns == ret' # ret /\ ret'.op = "change_password"

ValidName(name) == Trim(name) # <<>> /\ Len(Trim(name)) <= NameMaxLen

\* a call that updates the name of a stored user has just returned
NameUpdateReturns ==
    /\ ret' # ret
    /\ ret'.op \in {"update_profile_uc", "update_name"}
    /\ \E u \in users : u.id = ret'.arg.user_id

\* the name the returned call asked for
AskedName == IF ret'.op = "update_name" THEN ret'.arg.name ELSE ret'.arg.cmd.name

\* C30: every stored user's name has 1 to 255 characters after trimming,
\* whatever registrations and name updates (User.update_name, UpdateProfile)
\* have run; a name update of a stored user with an invalid name returns a
\* validation error and leaves every stored name as it was.
C30_NamesBounded ==
    [][/\ \A u \in users' :
             1 <= Len(Trim(u.name)) /\ Len(Trim(u.name)) <= NameMaxLen
       /\ (NameUpdateReturns /\ ~ValidName(AskedName)) =>
             /\ ret'.res.kind = "Validation"
             /\ \A u \in users : \E v \in users' :
                   v.id = u.id /\ v.name = u.name]_vars

\* process p, running use case o, takes a step
Steps(p, o) == op[p] = o /\ pc'[p] # pc[p]

\* C31: every token record a RefreshToken execution stores has the user_id
\* of the stored record of the refresh token it was given; refresh never
\* issues tokens for another user.
C31_RefreshSameUser ==
    [][\A p \in Procs :
          Steps(p, "refresh") =>
              \A r \in tokens' \ tokens, s \in loc[p].stored :
                  r.user_id = s.user_id]_vars

\* the second user's refresh token was exchanged for a pair of the second
\* user, while the first user has records of its own
C31_Witness ==
    /\ ret.op = "refresh" /\ IsOk(ret.res)
    /\ \E s \in ret.loc.stored : s.user_id = 2
    /\ \E r \in tokens :
          r.jti = ArgJti(ret.res.val[1].refresh_token) /\ r.user_id = 2
    /\ \E r \in tokens : r.user_id = 1

\* the record q is the record r with nothing changed but the revocation
SameButRevocation(r, q) ==
    /\ q.id = r.id /\ q.jti = r.jti /\ q.user_id = r.user_id
    /\ q.token_type = r.token_type /\ q.expires_at = r.expires_at
    /\ q.created_at = r.created_at

\* the clean-up job has just returned
CleanupReturns == ret' # ret /\ ret'.op = "cleanup_expired_tokens"

\* C32: jti, user_id, token_type and expires_at of a stored token record
\* never change; the only change to a record is that a revocation sets
\* revoked and revoked_at on a record not yet revoked; a record leaves the
\* store only in a run of delete_expired, which removes exactly the records
\* whose expires_at is before the clock, never an unexpired one, and returns
\* how many it removed.
C32_RecordLifecycle ==
    [][/\ \A r \in tokens :
             \/ r \in tokens'
             \/ /\ ~r.revoked
                /\ [r EXCEPT !.revoked = TRUE, !.revoked_at = <<now>>] \in tokens'
                /\ \A q \in tokens' : q.id = r.id => SameButRevocation(r, q)
             \/ /\ CleanupReturns
                /\ r.expires_at < now
                /\ \A q \in tokens' : q.id # r.id
       /\ CleanupReturns =>
             /\ \A r \in tokens : r \in tokens' <=> ~(r.expires_at < now)
             /\ \A r \in tokens : ~is_expired(r, now) => r \in tokens'
             /\ ret'.res = Ok(Cardinality(tokens \ tokens'))]_vars

\* a run of the clean-up job removed a record and left a later one alone
C32_Witness ==
    /\ ret.op = "cleanup_expired_tokens" /\ IsOk(ret.res)
    /\ ret.res.val[1] >= 1
    /\ \E r \in tokens : ~is_expired(r, now)

\* a RegisterUser execution has just returned
RegisterReturns == ret' # ret /\ ret'.op = "register"

\* the command has a malformed e-mail, a short password or an empty name
BadRegisterInput(cmd) ==
    \/ ~ValidateEmail(cmd.email)
    \/ Len(cmd.password) < MIN_LENGTH
    \/ Len(cmd.name) = 0

\* C33: RegisterUser with a malformed e-mail, a password of fewer than 8
\* characters or an empty name returns a validation error and stores no user.
C33_BadInputRejected ==
    [][(RegisterReturns /\ BadRegisterInput(ret'.arg)) =>
          /\ ret'.res.kind = "Validation"
          /\ users' = users]_vars

\* a registration with a short password for an address that is already
\* registered was refused as invalid
C33_Witness ==
    /\ ret.op = "register" /\ ret.res.kind = "Validation"
    /\ ret.arg.password = ShortPassword
    /\ ValidateEmail(ret.arg.email) /\ Len(ret.arg.name) > 0
    /\ \E u \in users : u.email = ret.arg.email

\* C34: jwt_auth_middleware lets a request through only when the token it
\* carries has token_type "access"; a refresh token that is correctly
\* signed, unexpired and not revoked is refused as a bearer credential.
C34_OnlyAccessTokensAdmitted ==
    (UserApiAnswered /\ ret.loc.forwarded) =>
        ret.arg.token.claims.token_type = "access"

\* a login has just been refused for its input or its credentials
LoginRefused ==
    /\ ret' # ret
    /\ ret'.op \in {"login_web", "login_api"}
    /\ ret'.res.kind \in {"Validation", "Authentication"}

\* C35: a login_web or login_api execution that is refused for an invalid
\* e-mail, an unknown e-mail, a wrong password or an inactive account has
\* run no statement: the sessions and the token records are as they were
\* when it started, and a refused login_web leaves the user's session in
\* place.
C35_RefusedLoginChangesNothing ==
    [][LoginRefused =>
          /\ pc' = pc
          /\ sessions' = sessions
          /\ tokens' = tokens]_vars

\* a login_web of a deactivated account was refused and the session of
\* its earlier login is still stored
C35_Witness ==
    /\ ret.op = "login_web"
    /\ ret.res = authentication("Account is not active")
    /\ \E u \in ret.loc.user : \E s \in sessions : s.user_id = u.id

\* C36: a RefreshToken execution revokes the record of the refresh token it
\* was given and no other: the access token issued together with it and
\* every other token record keep their revoked flag in every step of the
\* execution.
C36_RefreshRevokesOnlyPresented ==
    [][\A p \in Procs :
          Steps(p, "refresh") =>
              \A r \in tokens :
                  r.jti # ArgJti(arg[p]) =>
                      \E q \in tokens' : q.id = r.id /\ q.revoked = r.revoked]_vars

\* a refresh has succeeded, its refresh token is revoked, and the access
\* token that was issued with that refresh token is not
C36_Witness ==
    /\ ret.op = "refresh" /\ IsOk(ret.res)
    /\ \E s \in tokens : s.jti = ArgJti(ret.arg) /\ s.revoked
    /\ \E a \in tokens :
          /\ a.token_type = "access" /\ a.jti = ArgJti(ret.arg) - 1
          /\ ~a.revoked

\* the token decodes as a refresh token of the server and its stored
\* record is neither revoked nor expired
RefreshAcceptable(token) ==
    /\ IsOk(RefreshDecode(token, now))
    /\ IsOk(RefreshCheckStored(TokenFindByJti(tokens, ArgJti(token)), now))

\* C37: the outcome of RefreshToken does not depend on the users table: a
\* refresh is refused only for what the token and the token store say, and
\* an execution that returns Ok for the token of a user who was inactive
\* when it started returns a pair like any other, so a refresh token issued
\* before its user was deactivated still yields a new pair.
C37_RefreshIgnoresUsers ==
    [][(ret' # ret /\ ret'.op = "refresh") =>
          /\ (pc' = pc /\ ~IsOk(ret'.res)) => ~RefreshAcceptable(ret'.arg)
          /\ (pc' = pc) => ~IsOk(ret'.res)
          /\ ret'.res.kind \in {"Ok", "Authentication"}
          /\ ret'.res.kind = "Authentication" =>
                ret'.res.msg \in {"Invalid token", "Invalid token signature",
                    "Token has expired", "Token not found",
                    "Token has been revoked",
                    "Invalid token type, expected refresh token"}]_vars

\* the refresh token of a user who had been deactivated was exchanged for
\* a new pair
C37_Witness ==
    /\ ret.op = "refresh" /\ IsOk(ret.res)
    /\ ret.loc.inactive
    /\ \E r \in tokens :
          r.jti = ArgJti(ret.res.val[1].refresh_token) /\ ~r.revoked

\* a ChangePassword execution takes a step: it starts, stores or returns
ChangePasswordActs ==
    \/ ChangePasswordReturns
    \/ \E p \in Procs : op'[p] = "change_password" /\ pc'[p] # pc[p]
    \/ \E p \in Procs : Steps(p, "change_password")

\* row v is row u with at most password_hash and updated_at replaced
OnlyPasswordChanged(u, v) ==
    v = [u EXCEPT !.password_hash = v.password_hash,
                  !.updated_at = v.updated_at]

\* C38 as stated: ChangePassword modifies only password_hash and updated_at
\* of the stored user, and every session and every token record is
\* unchanged.
C38_OnlyPasswordChanges ==
    [][ChangePasswordActs =>
          /\ sessions' = sessions
          /\ tokens' = tokens
          /\ \A u \in users : \E v \in users' : OnlyPasswordChanged(u, v)]_vars

\* C38, amended: ChangePassword changes no session and no token record, so
\* sessions and tokens issued before the change stay valid; on the users
\* table it changes the row of its user only, and stores that row as it
\* loaded it with password_hash and updated_at replaced.
C38_PasswordChangeFrame ==
    [][ChangePasswordActs =>
          /\ sessions' = sessions
          /\ tokens' = tokens
          /\ \A p \in Procs :
                Steps(p, "change_password") =>
                    /\ \A u \in users : u.id # arg[p].user_id => u \in users'
                    /\ \A v \in users' :
                          v.id = arg[p].user_id =>
                              /\ \E l \in loc[p].user : OnlyPasswordChanged(l, v)
                              /\ verify_password(v, arg[p].cmd.new_password)
          /\ (\A p \in Procs : ~Steps(p, "change_password")) => users' = users]_vars

\* the password was changed while the user had a session and an unrevoked
\* token record, and both are still stored
C38_Witness ==
    /\ ret.op = "change_password" /\ IsOk(ret.res)
    /\ \E u \in users :
          /\ u.id = ret.arg.user_id
          /\ verify_password(u, ret.arg.cmd.new_password)
          /\ \E s \in sessions : s.user_id = u.id
          /\ \E r \in tokens : r.user_id = u.id /\ ~r.revoked

\* the use cases that act for one user
UserUseCases == {"login_web", "login_api", "refresh", "logout_api", "logout_all"}

\* process p takes a step of one of them
Acting(p) ==
    /\ pc'[p] # pc[p]
    /\ op[p] \in UserUseCases \/ op'[p] \in UserUseCases

\* the user that execution is for: the user a login found, the user of the
\* record of the refresh token, the user a logout was called for
UsersOf(p) ==
    {u.id : u \in loc[p].user \cup loc'[p].user}
        \cup {s.user_id : s \in loc[p].stored \cup loc'[p].stored}
        \cup (IF op[p] = "logout_all" THEN {arg[p].user_id} ELSE {})
        \cup (IF op'[p] = "logout_all" THEN {arg'[p].user_id} ELSE {})

\* one of them ran from its start to its return in this step
OneShot == ret' # ret /\ ret'.op \in UserUseCases /\ pc' = pc

UsersOfShot ==
    {u.id : u \in ret'.loc.user}
        \cup {s.user_id : s \in ret'.loc.stored}
        \cup (IF ret'.op = "logout_api" THEN {ret'.arg.user_id} ELSE {})

\* the rows of every user outside U are the same in S and S2
Foreign(S, S2, U) == \A r \in S \cup S2 : r.user_id \notin U => r \in S /\ r \in S2

\* C39: a step of login_web, login_api, RefreshToken, logout_api or
\* logout_all executed for user u creates, deletes or revokes no session and
\* no token record of another user.
C39_OtherUsersUntouched ==
    [][/\ \A p \in Procs :
             Acting(p) => /\ Foreign(tokens, tokens', UsersOf(p))
                          /\ Foreign(sessions, sessions', UsersOf(p))
       /\ OneShot => /\ Foreign(tokens, tokens', UsersOfShot)
                     /\ Foreign(sessions, sessions', UsersOfShot)]_vars

\* logout_all has returned for the second user, whose token is revoked,
\* while the first user still has a session and an unrevoked token
C39_Witness ==
    /\ ret.op = "logout_all" /\ ret.arg.user_id = 2
    /\ \E r \in tokens : r.user_id = 2 /\ r.revoked
    /\ \E r \in tokens : r.user_id = 1 /\ ~r.revoked
    /\ \E s \in sessions : s.user_id = 1

\* C40: in every reachable state a stored token record has revoked = true
\* exactly when its revoked_at is set: records are created unrevoked with
\* no revoked_at, and every revocation sets both.
C40_RevokedIffStamped ==
    \A r \in tokens : r.revoked <=> r.revoked_at # <<>>

\* the store holds a record revoked by a refresh or a logout, with its
\* time of revocation, next to a record that was never revoked
C40_Witness ==
    /\ \E r \in tokens : r.revoked /\ r.revoked_at # <<>>
    /\ \E r \in tokens : ~r.revoked /\ r.revoked_at = <<>>

\* C28: Session.verify_csrf(candidate) is true exactly when candidate equals
\* the CSRF token of the session, whether the two have the same length or
\* not.
C28_CsrfVerifiesOnlyItself ==
    ret.op = "verify_csrf" =>
        (ret.res = Ok(TRUE) <=> ret.arg.candidate = ret.arg.own)

\* a candidate of the token's length that differs from it was refused
C28_Witness ==
    /\ ret.op = "verify_csrf" /\ ret.res = Ok(FALSE)
    /\ Len(ret.arg.candidate) = Len(ret.arg.own)
    /\ Len(ret.arg.own) = MaxCsrfLen

\* C29: the response made from a Database, Internal or Config error does not
\* contain the detail of the error: its details field is absent and its
\* message is the generic one.
C29_InternalDetailHidden ==
    (ret.op = "into_response" /\ ret.arg.error.kind \in InternalKinds) =>
        LET response == ret.res.val[1]
        IN  /\ response.status = 500
            /\ response.error.details = <<>>
            /\ \A i \in 1..Len(response.error.message) :
                  response.error.message[i] # ret.arg.error.msg

TypeOK ==
    /\ now \in 0..MaxTime
    /\ \A p \in Procs : pc[p] \in {"idle", "rg_save", "lw_delete", "lw_save_delete", "lw_save_insert", "save_access",
           "save_refresh", "rt_revoke", "la_revoke", "cp_update", "up_update"}
    /\ \A p \in Procs : op[p] \in {"none", "register", "register_api",
           "login_web", "login_api", "refresh", "logout_web", "logout_api",
           "logout_all", "change_password", "update_profile_uc"}

====
